---- MODULE Spec2Model ----
(***************************************************************************)
(* A model of the magellanicus renderer: the asset tables of Renderer      *)
(* (renderer.rs), the validation of the add_* parameters                    *)
(* (renderer/parameters/*.rs), the BSP point location find_leaf /           *)
(* find_cluster, and the outcome of VulkanRenderer::draw_frame              *)
(* (renderer/vulkan.rs).                                                    *)
(*                                                                         *)
(* Conventions.  Option<T> is a sequence of length at most one: None is    *)
(* << >> and Some(x) is << x >>.  Rust vectors are sequences; the source's  *)
(* 0-based index i is the element At(s, i) = s[i + 1].  f32 coordinates,    *)
(* offsets and fog numbers are integers (no NaN, no rounding).  An MResult  *)
(* is the string "Ok" or the name of the error; every error raised by a     *)
(* validator is an Error::DataError, a failure of a Vulkan call is          *)
(* "GraphicsAPIError".                                                      *)
(***************************************************************************)
EXTENDS Integers, Sequences, FiniteSets, TLC

VARIABLES
    bitmaps,          \* Renderer::bitmaps   : path -> Bitmap
    shaders,          \* Renderer::shaders   : path -> Shader
    geometries,       \* Renderer::geometries: path -> Geometry (add_geometry is todo!())
    skies,            \* Renderer::skies     : path -> Sky
    bsps,             \* Renderer::bsps      : path -> BSP
    default_bitmaps,  \* Renderer::default_bitmaps : Option<DefaultBitmaps>
    current_bsp,      \* Renderer::current_bsp     : Option<path>
    future,           \* VulkanRenderer::future    : Option<GpuFuture>
    result,           \* the last call of the public interface and what it returned
    frame,            \* what the last draw_frame call did
    param,            \* the AddBSPParameter under test (SpecBSP)
    vres,             \* what AddBSPParameter::validate returned for param (SpecBSP)
    fl,               \* what find_leaf / find_cluster returned (SpecBSP)
    player_viewports, \* Renderer::player_viewports : Vec<PlayerViewport>
    swapchain,        \* VulkanRenderer::swapchain, swapchain_images,
                      \* swapchain_image_views and current_resolution
    commands,         \* the command buffer recorded by the last draw_frame, per viewport
    gpu,              \* the frames handed to the queue and how far the GPU got with them
    host              \* the threads of the host application, its pause flag and its mutex

tables == <<bitmaps, shaders, geometries, skies, bsps>>
\* what the asset and BSP operations never touch
presentation == <<player_viewports, swapchain, commands, gpu>>
vars == <<bitmaps, shaders, geometries, skies, bsps, default_bitmaps, current_bsp,
          future, result, frame, param, vres, fl, player_viewports, swapchain, commands, gpu,
          host>>

----------------------------------------------------------------------------
(* Bounds of the model *)

\* the node arrays under test have at most MaxNodes nodes
MaxNodes == 2
\* the leaf arrays under test have at most MaxLeaves leaves
MaxLeaves == 1
\* the cluster arrays under test have at most MaxClusters clusters
MaxClusters == 1
\* the portal arrays under test have at most MaxPortals portals
MaxPortals == 1

----------------------------------------------------------------------------
(* Option, vectors, maps *)

None == << >>
Some(x) == << x >>
Unwrap(o) == o[1]
At(s, i) == s[i + 1]
InRange(s, i) == i >= 0 /\ i < Len(s)
Opt(S) == {None} \cup {Some(x) : x \in S}
SeqsUpTo(S, n) == UNION {[1..k -> S] : k \in 0..n}

Dot(a, b) == a[1] * b[1] + a[2] * b[2] + a[3] * b[3]

EmptyMap == [k \in {} |-> 0]
contains_key(m, k) == k \in DOMAIN m
insert(m, k, v) == [x \in (DOMAIN m) \cup {k} |-> IF x = k THEN v ELSE m[x]]

\* the first index (1-based) at which the sequence of booleans bad is TRUE, 0 when
\* there is none: the element at which a `for` loop with an early `return Err` stops
FirstIndex(bad) ==
    IF \E i \in 1..Len(bad) : bad[i]
    THEN CHOOSE i \in 1..Len(bad) : bad[i] /\ \A j \in 1..(i - 1) : ~bad[j]
    ELSE 0

----------------------------------------------------------------------------
(* BSPData (renderer/parameters/bsp.rs) *)

NoChild == [kind |-> "None", index |-> 0]
NodeChild(n) == [kind |-> "Node", index |-> n]
LeafChild(l) == [kind |-> "Leaf", index |-> l]

\* impl Default for BSPData
BSPData_default ==
    [nodes    |-> << [front_child |-> NoChild, back_child |-> NoChild, plane |-> 0] >>,
     planes   |-> << [angle |-> <<0, 1, 0>>, offset |-> 0] >>,
     leaves   |-> << >>,
     clusters |-> << >>,
     portals  |-> << >>]

\* the result of a validator: Ok or the first error, the nodes verified so far
\* and the deepest nesting of validate_3d_node below the call made by validate
VOk(tested, depth) == [err |-> None, nodes_tested |-> tested, max_depth |-> depth]
VErr(e, tested, depth) == [err |-> Some(e), nodes_tested |-> tested, max_depth |-> depth]

Max(a, b) == IF a >= b THEN a ELSE b

RECURSIVE validate_3d_node(_, _, _, _, _)

\* BSPData::validate_child: depth is the nesting depth of the calling validate_3d_node
validate_child(data, node, child, remaining_tests, nodes_tested, depth) ==
    IF child.kind = "Node"
    THEN IF child.index >= Len(data.nodes)
         THEN VErr("broken BSP: node does not exist", nodes_tested, depth)
         ELSE validate_3d_node(data, child.index, remaining_tests, nodes_tested, depth + 1)
    ELSE IF child.index >= Len(data.leaves)
         THEN VErr("broken BSP: leaf does not exist", nodes_tested, depth)
         ELSE VOk(nodes_tested, depth)

\* BSPData::validate_3d_node
validate_3d_node(data, node, remaining_tests, nodes_tested, depth) ==
    IF At(nodes_tested, node)
    THEN VOk(nodes_tested, depth)
    ELSE IF remaining_tests = 0
    THEN VErr("infinite loop detected when traversing nodes", nodes_tested, depth)
    ELSE LET remaining == remaining_tests - 1
             node_data == At(data.nodes, node)
             front == IF node_data.front_child.kind # "None"
                      THEN validate_child(data, node, node_data.front_child, remaining,
                                          nodes_tested, depth)
                      ELSE VOk(nodes_tested, depth)
         IN  IF front.err # None THEN front
             ELSE LET back == IF node_data.back_child.kind # "None"
                              THEN validate_child(data, node, node_data.back_child, remaining,
                                                  front.nodes_tested, depth)
                              ELSE VOk(front.nodes_tested, depth)
                      deepest == Max(front.max_depth, back.max_depth)
                  IN  IF back.err # None
                      THEN VErr(Unwrap(back.err), back.nodes_tested, deepest)
                      ELSE VOk([back.nodes_tested EXCEPT ![node + 1] = TRUE], deepest)

\* a budget that is one short of the number of nodes
RemainingTestsShort(data) == Len(data.nodes) - 1

\* a faulty budget, one test too many: C2_CyclicGraphRejected tells it from
\* RemainingTests by the depth of the recursion
RemainingTestsOneMore(data) == Len(data.nodes) + 4

\* the traversal budget validate hands to validate_3d_node (bsp.rs:220)
RemainingTests(data) == Len(data.nodes) + 3

\* the loop of BSPData::validate over every node (bsp.rs:218-221)
RECURSIVE validate_nodes_from(_, _, _, _)
validate_nodes_from(data, index, nodes_tested, deepest) ==
    IF index >= Len(data.nodes)
    THEN VOk(nodes_tested, deepest)
    ELSE LET r == validate_3d_node(data, index, RemainingTests(data), nodes_tested, 0)
         IN  IF r.err # None
             THEN VErr(Unwrap(r.err), r.nodes_tested, Max(deepest, r.max_depth))
             ELSE validate_nodes_from(data, index + 1, r.nodes_tested, Max(deepest, r.max_depth))

\* the number of triangles of all materials of all lightmap sets (bsp.rs:228-234)
RECURSIVE SumLen(_)
SumLen(ss) == IF ss = << >> THEN 0 ELSE Len(Head(ss)) + SumLen(Tail(ss))
MaterialSurfaceCount(lightmap_set) ==
    SumLen([i \in 1..Len(lightmap_set.materials) |-> lightmap_set.materials[i].surfaces])
RECURSIVE SumSurfaces(_)
SumSurfaces(sets) ==
    IF sets = << >> THEN 0 ELSE MaterialSurfaceCount(Head(sets)) + SumSurfaces(Tail(sets))
total_surface_count(full_parameter) == SumSurfaces(full_parameter.lightmap_sets)

\* the check of one cluster's portal list (bsp.rs:247-251): the loop compares the
\* position p_index of each entry, not the entry, with the number of portals
cluster_portals_bad(data, cluster) ==
    \E p_index \in 0..(Len(cluster.cluster_portals) - 1) : p_index >= Len(data.portals)

\* the body of the loop over the clusters (bsp.rs:236-252)
cluster_error(r, data, cluster, total) ==
    IF cluster.sky # None /\ ~contains_key(r.skies, Unwrap(cluster.sky))
    THEN Some("cluster points to sky which has not been loaded")
    ELSE IF \E s \in 1..Len(cluster.subclusters) :
               \E i \in 1..Len(cluster.subclusters[s].surface_indices) :
                   cluster.subclusters[s].surface_indices[i] >= total
    THEN Some("subcluster points to an out-of-bounds surface")
    ELSE IF cluster_portals_bad(data, cluster)
    THEN Some("cluster points to an out-of-bounds portal")
    ELSE None

\* BSPData::validate
BSPData_validate(data, r, full_parameter) ==
    IF data.nodes = << >>
    THEN VErr("No nodes present", << >>, 0)
    ELSE
    LET nodes == validate_nodes_from(data, 0, [i \in 1..Len(data.nodes) |-> FALSE], 0)
        total == total_surface_count(full_parameter)
        bad_leaf == FirstIndex([i \in 1..Len(data.leaves) |->
                                   data.leaves[i].cluster >= Len(data.clusters)])
        bad_cluster == FirstIndex([i \in 1..Len(data.clusters) |->
                                   cluster_error(r, data, data.clusters[i], total) # None])
        bad_portal == FirstIndex([i \in 1..Len(data.portals) |->
                                   \/ data.portals[i].front_cluster >= Len(data.clusters)
                                   \/ data.portals[i].back_cluster >= Len(data.clusters)])
    IN  IF nodes.err # None THEN nodes
        ELSE IF bad_leaf # 0
        THEN VErr("leaf points to cluster which does not exist", nodes.nodes_tested, nodes.max_depth)
        ELSE IF bad_cluster # 0
        THEN VErr(Unwrap(cluster_error(r, data, data.clusters[bad_cluster], total)),
                  nodes.nodes_tested, nodes.max_depth)
        ELSE IF bad_portal # 0
        THEN VErr("portal points to an out-of-bounds cluster", nodes.nodes_tested, nodes.max_depth)
        ELSE nodes

\* the checks of one material without the test of the shader's type
material_error_allows_model(r, material, has_lightmap_bitmap) ==
    IF /\ material.lightmap_vertices # None
       /\ Len(Unwrap(material.lightmap_vertices)) # Len(material.shader_vertices)
    THEN Some("pipeline vertex count differs from lightmap vertex count")
    ELSE IF material.lightmap_vertices # None /\ ~has_lightmap_bitmap
    THEN Some("material has lightmap vertices when no lightmap bitmap is set")
    ELSE IF ~contains_key(r.shaders, material.shader)
    THEN Some("material references pipeline which is not loaded")
    ELSE None

\* AddBSPParameter::validate, the checks of one material (bsp.rs:76-97)
material_error(r, material, has_lightmap_bitmap) ==
    IF /\ material.lightmap_vertices # None
       /\ Len(Unwrap(material.lightmap_vertices)) # Len(material.shader_vertices)
    THEN Some("pipeline vertex count differs from lightmap vertex count")
    ELSE IF material.lightmap_vertices # None /\ ~has_lightmap_bitmap
    THEN Some("material has lightmap vertices when no lightmap bitmap is set")
    ELSE IF ~contains_key(r.shaders, material.shader)
    THEN Some("material references pipeline which is not loaded")
    ELSE IF r.shaders[material.shader].shader_type = "Model"
    THEN Some("material references a Model pipeline which isn't allowed for BSPs")
    ELSE None

\* the checks of one lightmap set with a bitmap index that may be one past the
\* last bitmap
lightmap_set_error_past_end(r, self, lightmap) ==
    LET has_lightmap_bitmap == self.lightmap_bitmap # None
        bad_material == FirstIndex([i \in 1..Len(lightmap.materials) |->
            material_error(r, lightmap.materials[i], has_lightmap_bitmap) # None])
    IN  IF lightmap.lightmap_index # None /\ ~has_lightmap_bitmap
        THEN Some("lightmap has a bitmap index, but no lightmap bitmap is set")
        ELSE IF /\ lightmap.lightmap_index # None
                /\ Unwrap(lightmap.lightmap_index)
                       > Len(r.bitmaps[Unwrap(self.lightmap_bitmap)].bitmaps)
        THEN Some("lightmap refers to a bitmap the lightmap bitmap does not have")
        ELSE IF bad_material # 0
        THEN material_error(r, lightmap.materials[bad_material], has_lightmap_bitmap)
        ELSE None

\* AddBSPParameter::validate, the checks of one lightmap set (bsp.rs:65-98)
lightmap_set_error(r, self, lightmap) ==
    LET has_lightmap_bitmap == self.lightmap_bitmap # None
        bad_material == FirstIndex([i \in 1..Len(lightmap.materials) |->
            material_error(r, lightmap.materials[i], has_lightmap_bitmap) # None])
    IN  IF lightmap.lightmap_index # None /\ ~has_lightmap_bitmap
        THEN Some("lightmap has a bitmap index, but no lightmap bitmap is set")
        ELSE IF /\ lightmap.lightmap_index # None
                /\ Unwrap(lightmap.lightmap_index)
                       >= Len(r.bitmaps[Unwrap(self.lightmap_bitmap)].bitmaps)
        THEN Some("lightmap refers to a bitmap the lightmap bitmap does not have")
        ELSE IF bad_material # 0
        THEN material_error(r, lightmap.materials[bad_material], has_lightmap_bitmap)
        ELSE None

\* AddBSPParameter::validate
AddBSPParameter_validate(self, r) ==
    IF self.lightmap_bitmap # None /\ ~contains_key(r.bitmaps, Unwrap(self.lightmap_bitmap))
    THEN VErr("BSP refers to lightmap bitmap which is not loaded", << >>, 0)
    ELSE LET bad_set == FirstIndex([i \in 1..Len(self.lightmap_sets) |->
                 lightmap_set_error(r, self, self.lightmap_sets[i]) # None])
         IN  IF bad_set # 0
             THEN VErr(Unwrap(lightmap_set_error(r, self, self.lightmap_sets[bad_set])), << >>, 0)
             ELSE BSPData_validate(self.bsp_data, r, self)

----------------------------------------------------------------------------
(* Point location (bsp.rs:187-211) *)

\* a faulty test that sends a point lying on the plane to the back:
\* C5_FindLeafFollowsPlanes tells it from IsFront
IsFrontStrict(position, plane) == Dot(position, plane.angle) > plane.offset

\* the test of find_leaf: the point is in front of the plane, the plane included
IsFront(position, plane) == Dot(position, plane.angle) >= plane.offset

\* what a traversal produced: it returned value, or it indexed a vector out of
\* bounds (panic), or it came back to a node it had left, with the same position,
\* and so loops forever (hang).  path lists the nodes visited and the side taken.
Returned(value, path) == [outcome |-> "return", value |-> value, path |-> path]
Panicked(path) == [outcome |-> "panic", value |-> None, path |-> path]
Hangs(path) == [outcome |-> "hang", value |-> None, path |-> path]

RECURSIVE find_leaf_loop(_, _, _, _)
\* one iteration of the loop of find_leaf, at the node of index node_index
find_leaf_loop(data, position, node_index, path) ==
    LET node == At(data.nodes, node_index)
    IN  IF ~InRange(data.planes, node.plane)
        THEN Panicked(Append(path, [node |-> node_index, side |-> "none"]))
        ELSE LET plane == At(data.planes, node.plane)
                 side == IF IsFront(position, plane) THEN "front" ELSE "back"
                 child == IF side = "front" THEN node.front_child ELSE node.back_child
                 visited == Append(path, [node |-> node_index, side |-> side])
             IN  IF child.kind = "None" THEN Returned(None, visited)
                 ELSE IF child.kind = "Leaf" THEN Returned(Some(child.index), visited)
                 ELSE IF ~InRange(data.nodes, child.index) THEN Panicked(visited)
                 ELSE IF \E i \in 1..Len(visited) : visited[i].node = child.index
                 THEN Hangs(visited)
                 ELSE find_leaf_loop(data, position, child.index, visited)

\* BSPData::find_leaf
find_leaf(data, position) ==
    IF data.nodes = << >> THEN Panicked(<< >>) ELSE find_leaf_loop(data, position, 0, << >>)

\* BSPData::find_cluster
find_cluster(data, position) ==
    LET leaf == find_leaf(data, position)
    IN  IF leaf.outcome # "return" \/ leaf.value = None THEN leaf
        ELSE IF ~InRange(data.leaves, Unwrap(leaf.value)) THEN Panicked(leaf.path)
        ELSE Returned(Some(At(data.leaves, Unwrap(leaf.value)).cluster), leaf.path)

----------------------------------------------------------------------------
(* Bitmaps (renderer/parameters/bitmap.rs, renderer/data/bitmap.rs) *)

Dim2D == [kind |-> "Dim2D", depth |-> 0]
Dim3D(d) == [kind |-> "Dim3D", depth |-> d]
Cubemap == [kind |-> "Cubemap", depth |-> 0]

\* BitmapFormat::block_pixel_length, for the formats the model uses
block_pixel_length(format) == IF format \in {"DXT1", "DXT3", "DXT5", "BC7"} THEN 4 ELSE 1

\* BitmapFormat::block_byte_size, for the formats the model uses
block_byte_size(format) ==
    CASE format = "A8R8G8B8" -> 4
      [] format = "R5G6B5" -> 2
      [] format = "A8" -> 1
      [] OTHER -> 16

\* u32::ilog2
RECURSIVE ilog2(_)
ilog2(n) == IF n <= 1 THEN 0 ELSE 1 + ilog2(n \div 2)

RECURSIVE Pow2(_)
Pow2(n) == IF n = 0 THEN 1 ELSE 2 * Pow2(n - 1)

\* the bytes of one sub-bitmap of an uncompressed format: the base level and
\* mipmap_count further levels, every dimension halved per level and at least 1,
\* six faces for a cubemap (MipmapFaceIterator)
RECURSIVE mipmap_block_count(_, _, _)
mipmap_block_count(bitmap, level, last) ==
    LET w == Max(bitmap.resolution.width \div Pow2(level), 1)
        h == Max(bitmap.resolution.height \div Pow2(level), 1)
        d == IF bitmap.bitmap_type.kind = "Dim3D"
             THEN Max(bitmap.bitmap_type.depth \div Pow2(level), 1) ELSE 1
        faces == IF bitmap.bitmap_type.kind = "Cubemap" THEN 6 ELSE 1
    IN  w * h * d * faces
        + (IF level >= last THEN 0 ELSE mipmap_block_count(bitmap, level + 1, last))

\* AddBitmapParameter::validate, the check of one sequence (bitmap.rs:20-41)
sequence_invalid(self, sequence) ==
    IF sequence.kind = "Bitmap"
    THEN /\ sequence.count # 0
         /\ ~(sequence.first + sequence.count - 1 < Len(self.bitmaps))
    ELSE \E i \in 1..Len(sequence.sprites) : ~InRange(self.bitmaps, sequence.sprites[i])

\* AddBitmapParameter::validate, the check of one sub-bitmap (bitmap.rs:47-106);
\* bitmap.data is the number of bytes of pixel data
bitmap_invalid(bitmap) ==
    LET width == bitmap.resolution.width
        height == bitmap.resolution.height
        highest_dimension ==
            Max(Max(width, height),
                IF bitmap.bitmap_type.kind = "Dim3D" THEN bitmap.bitmap_type.depth ELSE 1)
        log_of_highest_dim == ilog2(highest_dimension)
        highest_possible_mipmap_count ==
            IF highest_dimension = Pow2(log_of_highest_dim)
            THEN log_of_highest_dim ELSE log_of_highest_dim + 1
    IN  \/ width = 0 \/ height = 0
        \/ bitmap.data = 0
        \/ bitmap.bitmap_type.kind = "Dim3D" /\ bitmap.bitmap_type.depth = 0
        \/ bitmap.mipmap_count > highest_possible_mipmap_count
        \/ mipmap_block_count(bitmap, 0, bitmap.mipmap_count)
               * block_byte_size(bitmap.format) # bitmap.data

\* AddBitmapParameter::validate
AddBitmapParameter_validate(self) ==
    IF \E i \in 1..Len(self.sequences) : sequence_invalid(self, self.sequences[i])
    THEN "DataError"
    ELSE IF \E i \in 1..Len(self.bitmaps) : bitmap_invalid(self.bitmaps[i])
    THEN "DataError"
    ELSE "Ok"

\* Bitmap::load_from_parameters, when every VulkanBitmapData::new succeeds
Bitmap_load_from_parameters(parameter) ==
    [bitmaps   |-> [i \in 1..Len(parameter.bitmaps) |->
                       [resolution  |-> parameter.bitmaps[i].resolution,
                        bitmap_type |-> parameter.bitmaps[i].bitmap_type]],
     sequences |-> parameter.sequences]

----------------------------------------------------------------------------
(* Shaders (renderer/parameters/shader.rs, renderer/data/shader.rs) *)

\* expect_bitmap_or_else
expect_bitmap_or_else(bitmap, bitmap_type) ==
    IF \E i \in 1..Len(bitmap.bitmaps) : bitmap.bitmaps[i].bitmap_type # bitmap_type
    THEN "DataError" ELSE "Ok"

\* check_bitmap
check_bitmap(r, reference, bitmap_type) ==
    IF reference = None THEN "Ok"
    ELSE IF ~contains_key(r.bitmaps, Unwrap(reference)) THEN "DataError"
    ELSE expect_bitmap_or_else(r.bitmaps[Unwrap(reference)], bitmap_type)

\* AddShaderEnvironmentShaderData::validate
AddShaderEnvironmentShaderData_validate(self, r) ==
    IF check_bitmap(r, self.base_map, Dim2D) # "Ok" THEN "DataError"
    ELSE IF check_bitmap(r, self.primary_detail_map, Dim2D) # "Ok" THEN "DataError"
    ELSE IF check_bitmap(r, self.secondary_detail_map, Dim2D) # "Ok" THEN "DataError"
    ELSE IF check_bitmap(r, self.micro_detail_map, Dim2D) # "Ok" THEN "DataError"
    ELSE IF check_bitmap(r, self.bump_map, Dim2D) # "Ok" THEN "DataError"
    ELSE check_bitmap(r, self.reflection_cube_map, Cubemap)

\* AddShaderParameter::validate
AddShaderParameter_validate(self, r) ==
    IF self.kind = "BasicShader"
    THEN IF self.bitmap # None /\ ~contains_key(r.bitmaps, Unwrap(self.bitmap))
         THEN "DataError" ELSE "Ok"
    ELSE AddShaderEnvironmentShaderData_validate(self, r)

\* VulkanSimpleShaderMaterial::new (simple_shader.rs:27-31): the diffuse map is
\* sub-bitmap 0 of the referenced bitmap, and its absence is an API error
simple_shader_has_diffuse(self, r) ==
    /\ self.bitmap # None
    /\ contains_key(r.bitmaps, Unwrap(self.bitmap))
    /\ Len(r.bitmaps[Unwrap(self.bitmap)].bitmaps) > 0

\* Shader::load_from_parameters, when every Vulkan call succeeds
Shader_load_from_parameters(add_shader_parameter) ==
    [shader_type  |-> IF add_shader_parameter.kind = "BasicShader"
                      THEN add_shader_parameter.shader_type ELSE "Environment",
     material     |-> add_shader_parameter.kind,
     alpha_tested |-> add_shader_parameter.alpha_tested]

----------------------------------------------------------------------------
(* Skies (renderer/parameters/sky.rs, renderer/data/sky.rs) *)

\* AddSkyParameter::validate
AddSkyParameter_validate(self, r) ==
    IF ~(0 <= self.outdoor_fog_maximum_density /\ self.outdoor_fog_maximum_density <= 1)
    THEN "DataError"
    ELSE IF ~(0 <= self.indoor_fog_maximum_density /\ self.indoor_fog_maximum_density <= 1)
    THEN "DataError"
    ELSE IF \/ self.outdoor_fog_start_distance > self.outdoor_fog_opaque_distance
            \/ self.outdoor_fog_start_distance < 0
    THEN "DataError"
    ELSE IF \/ self.indoor_fog_start_distance > self.indoor_fog_opaque_distance
            \/ self.indoor_fog_start_distance < 0
    THEN "DataError"
    ELSE IF self.geometry # None /\ ~contains_key(r.geometries, Unwrap(self.geometry))
    THEN "DataError"
    ELSE "Ok"

----------------------------------------------------------------------------
(* BSP::load_from_parameters (renderer/data/bsp.rs) *)

\* Vec::sort
RECURSIVE sort_insert(_, _)
sort_insert(s, x) ==
    IF s = << >> THEN << x >>
    ELSE IF x < Head(s) THEN << x >> \o s
    ELSE << Head(s) >> \o sort_insert(Tail(s), x)
RECURSIVE sort(_)
sort(s) == IF s = << >> THEN << >> ELSE sort_insert(sort(Tail(s)), Head(s))

\* a dedup that drops nothing
dedup_keeps_all(s) == s

\* Vec::dedup: drops every element equal to the one before it
RECURSIVE dedup(_)
dedup(s) ==
    IF Len(s) <= 1 THEN s
    ELSE IF s[1] = s[2] THEN dedup(Tail(s))
    ELSE << s[1] >> \o dedup(Tail(s))

RECURSIVE Flatten(_)
Flatten(ss) == IF ss = << >> THEN << >> ELSE Head(ss) \o Flatten(Tail(ss))

\* the subclusters of a cluster after bsp.rs:113-116
normalized_subclusters(cluster) ==
    [s \in 1..Len(cluster.subclusters) |->
        [surface_indices |-> dedup(sort(cluster.subclusters[s].surface_indices))]]

\* all_surfaces of a cluster (bsp.rs:118-129)
all_surfaces(cluster) ==
    dedup(sort(Flatten([s \in 1..Len(cluster.subclusters) |->
                           normalized_subclusters(cluster)[s].surface_indices])))

\* the BSPGeometry of every (lightmap set, material), in iteration order (bsp.rs:44-91)
bsp_geometries(add_bsp_parameter) ==
    Flatten([l \in 1..Len(add_bsp_parameter.lightmap_sets) |->
        LET lightmap == add_bsp_parameter.lightmap_sets[l]
        IN  [m \in 1..Len(lightmap.materials) |->
                [shader |-> lightmap.materials[m].shader,
                 lightmap_index |-> IF lightmap.materials[m].lightmap_vertices # None
                                    THEN lightmap.lightmap_index ELSE None,
                 material_reflexive_index |-> m - 1,
                 lightmap_reflexive_index |-> l - 1]]])

\* Ord for the paths of the model ("a" < "b" < "c")
path_rank(path) == CASE path = "a" -> 1 [] path = "b" -> 2 [] path = "c" -> 3 [] OTHER -> 0

\* slice::sort_by with the comparison of bsp.rs:94-96, which is stable: the index x
\* goes behind every index whose shader is not greater
RECURSIVE sort_by_shader_insert(_, _, _)
sort_by_shader_insert(geoms, s, x) ==
    IF s = << >> THEN << x >>
    ELSE IF path_rank(At(geoms, x).shader) < path_rank(At(geoms, Head(s)).shader)
    THEN << x >> \o s
    ELSE << Head(s) >> \o sort_by_shader_insert(geoms, Tail(s), x)
RECURSIVE sort_by_shader(_, _)
sort_by_shader(geoms, indices) ==
    IF indices = << >> THEN << >>
    ELSE sort_by_shader_insert(geoms,
                               sort_by_shader(geoms, SubSeq(indices, 1, Len(indices) - 1)),
                               indices[Len(indices)])

\* geometry_indices_sorted_by_material (bsp.rs:93-96)
geometry_indices_sorted_by_material(geoms) ==
    sort_by_shader(geoms, [i \in 1..Len(geoms) |-> i - 1])

\* f32: the finite values of the model are integers well below INFINITY; NAN is
\* the value that is neither below, above nor equal to any other
INFINITY == 1000000000
NEG_INFINITY == -INFINITY
NAN == INFINITY + INFINITY

MIN_DRAW_DISTANCE_LIMIT == 100
MAX_DRAW_DISTANCE_LIMIT == 2250

\* f32::min and f32::max: the other argument when one is NaN
f32_min(a, b) == IF a = NAN THEN b ELSE IF b = NAN THEN a ELSE IF a <= b THEN a ELSE b
f32_max(a, b) == IF a = NAN THEN b ELSE IF b = NAN THEN a ELSE IF a >= b THEN a ELSE b
\* a - b: NaN for two infinities of the same sign
f32_sub(a, b) ==
    IF a = NAN \/ b = NAN THEN NAN
    ELSE IF a \in {INFINITY, NEG_INFINITY} THEN (IF a = b THEN NAN ELSE a)
    ELSE IF b \in {INFINITY, NEG_INFINITY} THEN -b
    ELSE a - b
\* a * a
f32_square(a) ==
    IF a = NAN THEN NAN ELSE IF a \in {INFINITY, NEG_INFINITY} THEN INFINITY ELSE a * a
\* a + b
f32_add(a, b) ==
    IF a = NAN \/ b = NAN THEN NAN
    ELSE IF a \in {INFINITY, NEG_INFINITY} THEN (IF b = -a THEN NAN ELSE a)
    ELSE IF b \in {INFINITY, NEG_INFINITY} THEN b
    ELSE a + b
\* the integer part of the square root
RECURSIVE isqrt(_)
isqrt(n) ==
    IF n < 2 THEN n
    ELSE LET s == 2 * isqrt(n \div 4)
         IN  IF (s + 1) * (s + 1) > n THEN s ELSE s + 1
\* f32::sqrt, to the integer below: NaN for NaN and for a negative number
f32_sqrt(a) ==
    IF a = NAN \/ a < 0 THEN NAN ELSE IF a = INFINITY THEN INFINITY ELSE isqrt(a)

\* f32::clamp: NaN stays NaN
f32_clamp(a, min, max) ==
    IF a = NAN THEN NAN ELSE IF a < min THEN min ELSE IF a > max THEN max ELSE a

\* the positions of all shader vertices, in the order bsp.rs:68-76 visits them
vertex_positions(add_bsp_parameter) ==
    Flatten([l \in 1..Len(add_bsp_parameter.lightmap_sets) |->
        Flatten([m \in 1..Len(add_bsp_parameter.lightmap_sets[l].materials) |->
            add_bsp_parameter.lightmap_sets[l].materials[m].shader_vertices])])

\* min_x, min_y, min_z and max_x, max_y, max_z after the first n positions
\* (bsp.rs:61-76)
RECURSIVE bounding_min(_, _)
bounding_min(positions, n) ==
    IF n = 0 THEN <<INFINITY, INFINITY, INFINITY>>
    ELSE LET m == bounding_min(positions, n - 1)
         IN  [k \in 1..3 |-> f32_min(m[k], positions[n][k])]
RECURSIVE bounding_max(_, _)
bounding_max(positions, n) ==
    IF n = 0 THEN <<NEG_INFINITY, NEG_INFINITY, NEG_INFINITY>>
    ELSE LET m == bounding_max(positions, n - 1)
         IN  [k \in 1..3 |-> f32_max(m[k], positions[n][k])]

\* draw_distance from the corners of the bounding box (bsp.rs:98-106)
draw_distance_of(lo, hi) ==
    LET raw == IF hi[1] = NEG_INFINITY THEN 0
               ELSE f32_add(f32_sqrt(f32_add(f32_add(f32_square(f32_sub(hi[1], lo[1])),
                                                     f32_square(f32_sub(hi[2], lo[2]))),
                                             f32_square(f32_sub(hi[3], lo[3])))), 10)
    IN  f32_clamp(raw, MIN_DRAW_DISTANCE_LIMIT, MAX_DRAW_DISTANCE_LIMIT)

\* draw_distance of a BSP (bsp.rs:61-76, 98-106)
draw_distance(add_bsp_parameter) ==
    LET positions == vertex_positions(add_bsp_parameter)
    IN  draw_distance_of(bounding_min(positions, Len(positions)),
                         bounding_max(positions, Len(positions)))

\* the ranges of the materials of one lightmap set, the first starting at index
\* (bsp.rs:135-140)
RECURSIVE material_ranges(_, _)
material_ranges(materials, index) ==
    IF materials = << >> THEN << >>
    ELSE LET new_index == index + Len(Head(materials).surfaces)
         IN  << [start |-> index, end |-> new_index] >>
                 \o material_ranges(Tail(materials), new_index)

\* ranges that all start at 0
RECURSIVE surfaces_ranges_from_zero(_, _)
surfaces_ranges_from_zero(lightmap_sets, index) ==
    IF lightmap_sets = << >> THEN << >>
    ELSE << material_ranges(Head(lightmap_sets).materials, 0) >>
             \o surfaces_ranges_from_zero(Tail(lightmap_sets), 0)

\* surfaces_ranges of the lightmap sets, the first range starting at index
\* (bsp.rs:133-141)
RECURSIVE surfaces_ranges(_, _)
surfaces_ranges(lightmap_sets, index) ==
    IF lightmap_sets = << >> THEN << >>
    ELSE << material_ranges(Head(lightmap_sets).materials, index) >>
             \o surfaces_ranges(Tail(lightmap_sets),
                                index + MaterialSurfaceCount(Head(lightmap_sets)))

\* Range::contains
range_contains(range, index) == range.start <= index /\ index < range.end

\* the triangles of one material that lie in a cluster (bsp.rs:153-161)
triangles_in_cluster(material, material_range, surfaces_in_cluster) ==
    LET kept == SelectSeq(surfaces_in_cluster, LAMBDA index : range_contains(material_range, index))
    IN  [k \in 1..Len(kept) |-> At(material.surfaces, kept[k] - material_range.start)]

\* so_many_vectors: clusters to lightmap sets to materials to triangles
\* (bsp.rs:146-165)
so_many_vectors(add_bsp_parameter, cluster_surfaces) ==
    LET ranges == surfaces_ranges(add_bsp_parameter.lightmap_sets, 0)
    IN  [c \in 1..Len(cluster_surfaces) |->
            [l \in 1..Len(ranges) |->
                [m \in 1..Len(ranges[l]) |->
                    triangles_in_cluster(add_bsp_parameter.lightmap_sets[l].materials[m],
                                         ranges[l][m], cluster_surfaces[c])]]]

\* cluster_surface_index_buffers (vulkan/bsp.rs:71-101): no buffer for a material
\* without triangles in the cluster, else a buffer of the indices of its triangles
cluster_surface_index_buffers(vectors) ==
    [c \in 1..Len(vectors) |->
        [l \in 1..Len(vectors[c]) |->
            [m \in 1..Len(vectors[c][l]) |->
                IF vectors[c][l][m] = << >> THEN None
                ELSE Some(Flatten(vectors[c][l][m]))]]]

\* BSP::load_from_parameters, when every Vulkan call succeeds
BSP_load_from_parameters(add_bsp_parameter) ==
    LET data == add_bsp_parameter.bsp_data
    IN  [geometries |-> bsp_geometries(add_bsp_parameter),
         geometry_indices_sorted_by_material |->
             geometry_indices_sorted_by_material(bsp_geometries(add_bsp_parameter)),
         bsp_data |-> [data EXCEPT !.clusters =
                          [c \in 1..Len(data.clusters) |->
                              [data.clusters[c] EXCEPT
                                  !.subclusters = normalized_subclusters(data.clusters[c])]]],
         cluster_surfaces |-> [c \in 1..Len(data.clusters) |-> all_surfaces(data.clusters[c])],
         cluster_surface_index_buffers |->
             cluster_surface_index_buffers(
                 so_many_vectors(add_bsp_parameter,
                                 [c \in 1..Len(data.clusters) |-> all_surfaces(data.clusters[c])])),
         draw_distance |-> draw_distance(add_bsp_parameter)]

\* impl Default for BSP
BSP_default ==
    [geometries |-> << >>, geometry_indices_sorted_by_material |-> << >>,
     bsp_data |-> BSPData_default, cluster_surfaces |-> << >>,
     cluster_surface_index_buffers |-> << >>,
     draw_distance |-> MIN_DRAW_DISTANCE_LIMIT]

----------------------------------------------------------------------------
(* The inputs the model draws from *)

Paths == {"a", "b", "c"}

SubBitmap(bitmap_type, bytes) ==
    [format |-> "A8", bitmap_type |-> bitmap_type,
     resolution |-> [width |-> 1, height |-> 1], mipmap_count |-> 0, data |-> bytes]
SimpleSequence(first, count) ==
    [kind |-> "Bitmap", first |-> first, count |-> count, sprites |-> << >>]

\* four 1x1 2D bitmaps, four 1x1x1 3D bitmaps, four 1x1 cubemaps
Bitmap4x2D ==
    [bitmaps |-> [i \in 1..4 |-> SubBitmap(Dim2D, 1)], sequences |-> << SimpleSequence(0, 4) >>]
Bitmap4x3D ==
    [bitmaps |-> [i \in 1..4 |-> SubBitmap(Dim3D(1), 1)], sequences |-> << SimpleSequence(0, 4) >>]
Bitmap4xCube ==
    [bitmaps |-> [i \in 1..4 |-> SubBitmap(Cubemap, 6)], sequences |-> << SimpleSequence(0, 4) >>]
\* a sequence that runs past the last bitmap: rejected by validate
BitmapBadSequence ==
    [bitmaps |-> << SubBitmap(Dim2D, 1) >>, sequences |-> << SimpleSequence(0, 2) >>]
\* a cubemap with the bytes of one face only: rejected by validate
BitmapBadLength ==
    [bitmaps |-> << SubBitmap(Cubemap, 1) >>, sequences |-> << >>]
\* three 2D bitmaps
Bitmap3x2D ==
    [bitmaps |-> [i \in 1..3 |-> SubBitmap(Dim2D, 1)], sequences |-> << SimpleSequence(0, 3) >>]
\* four 3D bitmaps with a sequence of sprites
Bitmap4x3DSprites ==
    [bitmaps |-> [i \in 1..4 |-> SubBitmap(Dim3D(1), 1)],
     sequences |-> << [kind |-> "Sprites", first |-> 0, count |-> 0, sprites |-> << 0 >>] >>]
\* the add_bitmap calls before set_default_bitmaps: every path is given a bitmap
\* fit for a default and one that is not
DefaultBitmapInputs ==
    {<<"a", Bitmap4x2D>>, <<"a", Bitmap3x2D>>, <<"b", Bitmap4x3D>>, <<"b", Bitmap4x3DSprites>>,
     <<"c", Bitmap4xCube>>, <<"c", Bitmap4x2D>>}
\* the add_bitmap calls of the model: "a" is given two different bitmaps
BitmapInputs ==
    {<<"a", Bitmap4x2D>>, <<"a", Bitmap4xCube>>, <<"b", Bitmap4x3D>>, <<"c", Bitmap4xCube>>,
     <<"b", BitmapBadSequence>>, <<"c", BitmapBadLength>>}

BasicShader(bitmap, shader_type) ==
    [kind |-> "BasicShader", bitmap |-> bitmap, shader_type |-> shader_type,
     alpha_tested |-> FALSE,
     base_map |-> None, primary_detail_map |-> None, secondary_detail_map |-> None,
     micro_detail_map |-> None, bump_map |-> None, reflection_cube_map |-> None]
ShaderEnvironment(map, cube) ==
    [kind |-> "ShaderEnvironment", bitmap |-> None, shader_type |-> "Environment",
     alpha_tested |-> TRUE,
     base_map |-> map, primary_detail_map |-> map, secondary_detail_map |-> map,
     micro_detail_map |-> map, bump_map |-> map, reflection_cube_map |-> cube]
\* the add_shader calls of the model: "a" is given two different shaders
ShaderInputs ==
    {<<"a", BasicShader(Some("a"), "TransparentGeneric")>>,
     <<"a", ShaderEnvironment(Some("a"), None)>>,
     <<"b", BasicShader(Some("a"), "Model")>>,
     <<"b", BasicShader(None, "Model")>>}

SkyOf(density, start, opaque, geometry) ==
    [geometry |-> geometry,
     outdoor_fog_color |-> <<1, 1, 1>>, outdoor_fog_maximum_density |-> density,
     outdoor_fog_start_distance |-> start, outdoor_fog_opaque_distance |-> opaque,
     indoor_fog_color |-> <<0, 0, 0>>, indoor_fog_maximum_density |-> 0,
     indoor_fog_start_distance |-> 0, indoor_fog_opaque_distance |-> 0]
\* the add_sky calls of the model: "a" is given two different skies
SkyInputs ==
    {<<"a", SkyOf(1, 100, 500, None)>>, <<"a", SkyOf(0, 0, 0, None)>>,  \* accepted
     <<"a", SkyOf(2, 0, 0, None)>>,                    \* density out of [0, 1]
     <<"b", SkyOf(1, 5, 1, None)>>,                    \* start beyond opaque
     <<"b", SkyOf(1, 0, 1, Some("a"))>>}               \* geometry not loaded

PlanePalette ==
    << [angle |-> <<1, 0, 0>>, offset |-> 0], [angle |-> <<0, 1, 0>>, offset |-> 1] >>
Positions == {<<-1, 0, 0>>, <<0, 0, 0>>, <<0, 1, 0>>, <<-1, 1, 0>>}

MaterialOf(shader) ==
    [shader_vertices |-> << <<0, 0, 0>>, <<1, 0, 0>>, <<0, 1, 0>> >>,
     lightmap_vertices |-> None,
     surfaces |-> << <<0, 1, 2>> >>,
     shader |-> shader]
LightmapSetOf(shader) == [lightmap_index |-> None, materials |-> << MaterialOf(shader) >>]
BaselineCluster == [sky |-> None, subclusters |-> << >>, cluster_portals |-> << >>]
BaselineNode == [front_child |-> NoChild, back_child |-> NoChild, plane |-> 0]

BSPOf(shader, data) ==
    [lightmap_bitmap |-> None, lightmap_sets |-> << LightmapSetOf(shader) >>, bsp_data |-> data]

\* two leaves either side of the plane x >= 0; cluster 0 has sky "a", cluster 1 none
BspTwoClusters ==
    BSPOf("a",
      [nodes    |-> << [front_child |-> LeafChild(0), back_child |-> LeafChild(1), plane |-> 0] >>,
       planes   |-> PlanePalette,
       leaves   |-> << [cluster |-> 0], [cluster |-> 1] >>,
       clusters |-> << [sky |-> Some("a"),
                        subclusters |-> << [surface_indices |-> <<0, 0>>] >>,
                        cluster_portals |-> << 0 >>],
                       BaselineCluster >>,
       portals  |-> << [front_cluster |-> 0, back_cluster |-> 1] >>])
\* the default tree, drawn with shader "a"
BspEmpty == BSPOf("a", BSPData_default)
\* node 0 is its own front child
BspCyclic ==
    BSPOf("a", [BSPData_default EXCEPT
                   !.nodes = << [BaselineNode EXCEPT !.front_child = NodeChild(0)] >>])
\* the add_bsp calls of the model: "a" is given two different BSPs
BSPInputs ==
    {<<"a", BspTwoClusters>>, <<"a", BspEmpty>>, <<"b", BspCyclic>>, <<"c", BspEmpty>>}
\* the set_default_bitmaps calls of the model
DefaultInputs ==
    {[default_2d |-> "a", default_3d |-> "b", default_cubemap |-> "c"],
     [default_2d |-> "a", default_3d |-> "a", default_cubemap |-> "c"],
     [default_2d |-> "c", default_3d |-> "b", default_cubemap |-> "a"]}

\* the trees of SpecBSP: every node array, over every leaf array
ChildRefs ==
    {NoChild} \cup {NodeChild(n) : n \in 0..MaxNodes} \cup {LeafChild(l) : l \in 0..MaxLeaves}
NodeSet == [front_child : ChildRefs, back_child : ChildRefs, plane : 0..Len(PlanePalette)]
NodeFamily ==
    {[nodes |-> n, planes |-> PlanePalette, leaves |-> l,
      clusters |-> [i \in 1..MaxClusters |-> BaselineCluster], portals |-> << >>] :
        n \in SeqsUpTo(NodeSet, MaxNodes), l \in SeqsUpTo([cluster : 0..MaxClusters], MaxLeaves)}

\* the cluster graphs of SpecBSP: every cluster array, over every portal array
ClusterSet ==
    [sky : {None, Some("a"), Some("b")},
     subclusters : {<< >>, << [surface_indices |-> <<0>>] >>, << [surface_indices |-> <<1>>] >>},
     cluster_portals : SeqsUpTo(0..MaxPortals, MaxPortals + 1)]
PortalSet == [front_cluster : 0..MaxClusters, back_cluster : 0..MaxClusters]
ClusterFamily ==
    {[nodes |-> << BaselineNode >>, planes |-> PlanePalette, leaves |-> << >>,
      clusters |-> c, portals |-> p] :
        c \in SeqsUpTo(ClusterSet, MaxClusters), p \in SeqsUpTo(PortalSet, MaxPortals)}

----------------------------------------------------------------------------
(* Renderer (renderer.rs) *)

\* the tables the validators read through &Renderer
Renderer == [bitmaps |-> bitmaps, shaders |-> shaders, geometries |-> geometries, skies |-> skies]

\* the host application (flycam-test/src/main.rs) shares the renderer between
\* its input thread and its render thread behind a Mutex: NoHost is a renderer
\* that is called without such threads
NoHost ==
    [pause_rendering_flag |-> FALSE, mutex |-> "free", poisoned |-> FALSE,
     input |-> "none", render |-> "none", keycode |-> "none", keys |-> 0,
     further_draws |-> 0]

\* a thread panics while it holds the MutexGuard: the guard is dropped during the
\* unwinding, which poisons and releases the Mutex
unwind_guard(h) == [h EXCEPT !.mutex = "free", !.poisoned = TRUE]

\* a draw_frame of the render thread while lock_renderer has set the flag and
\* has not obtained the renderer yet
further_draw(h) ==
    IF h.pause_rendering_flag /\ h.input \in {"swap", "lock"}
    THEN [h EXCEPT !.further_draws = IF @ < 2 THEN @ + 1 ELSE @]
    ELSE h

\* the thread of the host that made the call of the renderer goes on once the
\* call has returned r: the input thread unwraps what set_current_bsp returned
\* (main.rs:330) and drops its PriorityLock when it unwinds, the render thread
\* goes from the cameras (main.rs:1096) to draw_frame (main.rs:1101)
renderer_returns(h, r) ==
    IF h.input = "call"
    THEN IF r.status = "Ok" THEN [h EXCEPT !.input = "drop"]
         ELSE unwind_guard([h EXCEPT !.input = "panicked", !.pause_rendering_flag = FALSE])
    ELSE IF h.render = "set_camera_for_viewport"
    THEN IF r.status = "panic" THEN unwind_guard([h EXCEPT !.render = "panicked"])
         ELSE [h EXCEPT !.render = "draw_frame"]
    ELSE IF h.render = "draw_frame"
    THEN IF r.status = "panic" THEN unwind_guard([further_draw(h) EXCEPT !.render = "panicked"])
         ELSE [further_draw(h) EXCEPT !.render = "drop"]
    ELSE h

\* what a call returned: Ok(value) or Err(status); a panic ends the process
Return(op, path, status, value) == [op |-> op, path |-> path, status |-> status, value |-> value]
Alive == result.status # "panic"

\* the GPU work of the last call: none, unless the call is a draw_frame; acquire is
\* what acquire_next_image reported to it
NoFrame ==
    [acquire |-> "None", acquired |-> FALSE, recorded |-> FALSE, submitted |-> FALSE,
     presented |-> FALSE]

Now == "now"                \* vulkano::sync::now: a future that is already complete
FrameFuture == "frame"      \* the fence of the frame submitted last

\* Renderer::add_bitmap, its MResult; backend_ok: every VulkanBitmapData::new succeeds
add_bitmap_status(path, bitmap, backend_ok) ==
    IF contains_key(bsps, path) THEN "DataError"
    ELSE IF AddBitmapParameter_validate(bitmap) # "Ok" THEN "DataError"
    ELSE IF ~backend_ok THEN "GraphicsAPIError"
    ELSE "Ok"

\* Renderer::add_bitmap
add_bitmap(path, bitmap, backend_ok) ==
    LET status == add_bitmap_status(path, bitmap, backend_ok)
    IN  /\ Alive
        /\ bitmaps' = IF status = "Ok"
                      THEN insert(bitmaps, path, Bitmap_load_from_parameters(bitmap))
                      ELSE bitmaps
        /\ result' = Return("add_bitmap", path, status, FALSE)
        /\ frame' = NoFrame
        /\ UNCHANGED <<shaders, geometries, skies, bsps, default_bitmaps, current_bsp,
                       future, param, host, vres, fl, presentation>>

\* Renderer::add_shader, its MResult; backend_ok: every Vulkan call of the load succeeds
add_shader_status(path, shader, backend_ok) ==
    IF contains_key(shaders, path) THEN "DataError"
    ELSE IF AddShaderParameter_validate(shader, Renderer) # "Ok" THEN "DataError"
    ELSE IF shader.kind = "BasicShader" /\ ~simple_shader_has_diffuse(shader, Renderer)
    THEN "GraphicsAPIError"
    ELSE IF ~backend_ok THEN "GraphicsAPIError"
    ELSE "Ok"

\* Renderer::add_shader
add_shader(path, shader, backend_ok) ==
    LET status == add_shader_status(path, shader, backend_ok)
    IN  /\ Alive
        /\ shaders' = IF status = "Ok"
                      THEN insert(shaders, path, Shader_load_from_parameters(shader))
                      ELSE shaders
        /\ result' = Return("add_shader", path, status, FALSE)
        /\ frame' = NoFrame
        /\ UNCHANGED <<bitmaps, geometries, skies, bsps, default_bitmaps, current_bsp,
                       future, param, host, vres, fl, presentation>>

\* Renderer::add_sky, its MResult
add_sky_status(path, sky) == AddSkyParameter_validate(sky, Renderer)

\* Renderer::add_sky
add_sky(path, sky) ==
    LET status == add_sky_status(path, sky)
    IN  /\ Alive
        /\ skies' = IF status = "Ok" THEN insert(skies, path, sky) ELSE skies
        /\ result' = Return("add_sky", path, status, FALSE)
        /\ frame' = NoFrame
        /\ UNCHANGED <<bitmaps, shaders, geometries, bsps, default_bitmaps, current_bsp,
                       future, param, host, vres, fl, presentation>>

\* a faulty add_bsp_status without the test of renderer.rs:223, so that a second
\* add_bsp of a path replaces the first: C7_DuplicatePathRejected tells it from
\* add_bsp_status
add_bsp_status_replacing(path, bsp, backend_ok) ==
    IF AddBSPParameter_validate(bsp, Renderer).err # None THEN "DataError"
    ELSE IF ~backend_ok THEN "GraphicsAPIError"
    ELSE "Ok"

\* Renderer::add_bsp, its MResult; backend_ok: every Vulkan call of the load succeeds
add_bsp_status(path, bsp, backend_ok) ==
    IF contains_key(bsps, path) THEN "DataError"
    ELSE IF AddBSPParameter_validate(bsp, Renderer).err # None THEN "DataError"
    ELSE IF ~backend_ok THEN "GraphicsAPIError"
    ELSE "Ok"

\* a faulty add_bsp that stores the BSP before the Vulkan resources are built and
\* leaves it there when they fail: C1_FailedAddChangesNothing tells it from add_bsp
add_bsp_stores_before_load(path, bsp, backend_ok) ==
    LET status == add_bsp_status(path, bsp, backend_ok)
    IN  /\ Alive
        /\ bsps' = IF status \in {"Ok", "GraphicsAPIError"}
                   THEN insert(bsps, path, BSP_load_from_parameters(bsp))
                   ELSE bsps
        /\ result' = Return("add_bsp", path, status, FALSE)
        /\ frame' = NoFrame
        /\ UNCHANGED <<bitmaps, shaders, geometries, skies, default_bitmaps, current_bsp,
                       future, param, host, vres, fl, presentation>>

\* Renderer::add_bsp
add_bsp(path, bsp, backend_ok) ==
    LET status == add_bsp_status(path, bsp, backend_ok)
    IN  /\ Alive
        /\ bsps' = IF status = "Ok"
                   THEN insert(bsps, path, BSP_load_from_parameters(bsp))
                   ELSE bsps
        /\ result' = Return("add_bsp", path, status, FALSE)
        /\ frame' = NoFrame
        /\ UNCHANGED <<bitmaps, shaders, geometries, skies, default_bitmaps, current_bsp,
                       future, param, host, vres, fl, presentation>>

\* a lookup that finds every path
find_bsp_key_any(path) == Some(path)

\* the key of the BSP table equal to path (renderer.rs:239-243)
find_bsp_key(path) == IF contains_key(bsps, path) THEN Some(path) ELSE None

\* Renderer::set_current_bsp
set_current_bsp(path) ==
    LET status == IF path # None /\ find_bsp_key(Unwrap(path)) = None
                  THEN "DataError" ELSE "Ok"
    IN  /\ Alive
        /\ current_bsp' = IF status # "Ok" THEN current_bsp
                          ELSE IF path = None THEN None
                          ELSE find_bsp_key(Unwrap(path))
        /\ result' = Return("set_current_bsp", IF path = None THEN "" ELSE Unwrap(path),
                            status, FALSE)
        /\ frame' = NoFrame
        /\ UNCHANGED <<bitmaps, shaders, geometries, skies, bsps, default_bitmaps,
                       future, param, vres, fl, presentation>>
        /\ host' = renderer_returns(host, result')

\* a test of a default bitmap that does not count the bitmaps
is_default_bitmap_any_count(bitmap, kind) ==
    /\ \A i \in 1..Len(bitmap.bitmaps) : bitmap.bitmaps[i].bitmap_type.kind = kind
    /\ \A i \in 1..Len(bitmap.sequences) : bitmap.sequences[i].kind = "Bitmap"

\* the test of one default bitmap (renderer.rs:280-296): four bitmaps of the kind
\* and only simple sequences
is_default_bitmap(bitmap, kind) ==
    /\ Len(bitmap.bitmaps) = 4
    /\ \A i \in 1..Len(bitmap.bitmaps) : bitmap.bitmaps[i].bitmap_type.kind = kind
    /\ \A i \in 1..Len(bitmap.sequences) : bitmap.sequences[i].kind = "Bitmap"

\* a set_default_bitmaps that does not look at the default bitmaps already set
set_default_bitmaps_status_again(d) ==
    IF ~contains_key(bitmaps, d.default_2d) THEN "DataError"
    ELSE IF ~contains_key(bitmaps, d.default_3d) THEN "DataError"
    ELSE IF ~contains_key(bitmaps, d.default_cubemap) THEN "DataError"
    ELSE IF ~is_default_bitmap(bitmaps[d.default_2d], "Dim2D") THEN "DataError"
    ELSE IF ~is_default_bitmap(bitmaps[d.default_3d], "Dim3D") THEN "DataError"
    ELSE IF ~is_default_bitmap(bitmaps[d.default_cubemap], "Cubemap") THEN "DataError"
    ELSE "Ok"

\* Renderer::set_default_bitmaps, its MResult
set_default_bitmaps_status(d) ==
    IF default_bitmaps # None THEN "DataError"
    ELSE IF ~contains_key(bitmaps, d.default_2d) THEN "DataError"
    ELSE IF ~contains_key(bitmaps, d.default_3d) THEN "DataError"
    ELSE IF ~contains_key(bitmaps, d.default_cubemap) THEN "DataError"
    ELSE IF ~is_default_bitmap(bitmaps[d.default_2d], "Dim2D") THEN "DataError"
    ELSE IF ~is_default_bitmap(bitmaps[d.default_3d], "Dim3D") THEN "DataError"
    ELSE IF ~is_default_bitmap(bitmaps[d.default_cubemap], "Cubemap") THEN "DataError"
    ELSE "Ok"

\* the bitmap path in the message of the error of set_default_bitmaps
\* (renderer.rs:266-296); "" when the message has none or there is no error
set_default_bitmaps_named(d) ==
    IF default_bitmaps # None THEN ""
    ELSE IF ~contains_key(bitmaps, d.default_2d) THEN d.default_2d
    ELSE IF ~contains_key(bitmaps, d.default_3d) THEN d.default_3d
    ELSE IF ~contains_key(bitmaps, d.default_cubemap) THEN d.default_cubemap
    ELSE IF ~is_default_bitmap(bitmaps[d.default_2d], "Dim2D") THEN d.default_2d
    ELSE IF ~is_default_bitmap(bitmaps[d.default_3d], "Dim3D") THEN d.default_3d
    ELSE IF ~is_default_bitmap(bitmaps[d.default_cubemap], "Cubemap") THEN d.default_cubemap
    ELSE ""

\* Renderer::set_default_bitmaps
set_default_bitmaps(d) ==
    LET status == set_default_bitmaps_status(d)
    IN  /\ Alive
        /\ default_bitmaps' = IF status = "Ok" THEN Some(d) ELSE default_bitmaps
        /\ result' = Return("set_default_bitmaps", set_default_bitmaps_named(d), status, FALSE)
        /\ frame' = NoFrame
        /\ UNCHANGED <<bitmaps, shaders, geometries, skies, bsps, current_bsp,
                       future, param, host, vres, fl, presentation>>

\* a reset that forgets the assets and keeps the default bitmaps
reset_keeps_default_bitmaps == default_bitmaps

\* the default bitmaps after Renderer::reset (renderer.rs:136)
reset_default_bitmaps == None

\* a reset that forgets the shaders and skies and keeps the BSPs and the current BSP
reset_keeps_bsps ==
    /\ Alive
    /\ bitmaps' = EmptyMap
    /\ shaders' = EmptyMap
    /\ geometries' = EmptyMap
    /\ skies' = EmptyMap
    /\ default_bitmaps' = None
    /\ result' = Return("reset", "", "Ok", FALSE)
    /\ frame' = NoFrame
    /\ UNCHANGED <<bsps, current_bsp, future, param, host, vres, fl, presentation>>

\* Renderer::reset
reset ==
    /\ Alive
    /\ bitmaps' = EmptyMap
    /\ shaders' = EmptyMap
    /\ geometries' = EmptyMap
    /\ skies' = EmptyMap
    /\ bsps' = EmptyMap
    /\ current_bsp' = None
    /\ default_bitmaps' = reset_default_bitmaps
    /\ result' = Return("reset", "", "Ok", FALSE)
    /\ frame' = NoFrame
    /\ UNCHANGED <<future, param, host, vres, fl, presentation>>

----------------------------------------------------------------------------
(* VulkanRenderer::draw_frame (renderer/vulkan.rs) *)

\* what acquire_next_image reports, and then_signal_fence_and_flush
AcquireOutcomes == {"Ok", "Suboptimal", "OutOfDate", "Error"}
SubmitOutcomes == {"Ok", "OutOfDate", "Error"}

\* the bool of draw_frame_infallible (vulkan.rs:403-420)
draw_frame_infallible_value(submit) == submit = "Ok"

\* a faulty result that reports true when the swapchain is out of date, the
\* reading of the doc comment of Renderer::draw_frame: C9_OutOfDateAcquire tells it
\* from draw_frame_value
draw_frame_value_needs_rebuild(acquire, submit) ==
    IF acquire = "OutOfDate" THEN TRUE
    ELSE draw_frame_infallible_value(submit) /\ ~(acquire = "Suboptimal")

\* the bool of Ok(..) at vulkan.rs:158 and vulkan.rs:162
draw_frame_value(acquire, submit) ==
    IF acquire = "OutOfDate" THEN FALSE
    ELSE draw_frame_infallible_value(submit) /\ ~(acquire = "Suboptimal")

\* a faulty outcome that does not put a future back when the submission is out of
\* date (vulkan.rs:413-415 left out): C11_FutureAlwaysHeld tells it from
\* draw_frame_outcome
draw_frame_outcome_loses_future(acquire, submit) ==
    IF acquire = "OutOfDate"
    THEN /\ result' = Return("draw_frame", "", "Ok", draw_frame_value(acquire, submit))
         /\ frame' = [NoFrame EXCEPT !.acquire = acquire]
         /\ UNCHANGED future
    ELSE IF acquire = "Error" \/ future = None
    THEN /\ result' = Return("draw_frame", "", "panic", FALSE)
         /\ frame' = [NoFrame EXCEPT !.acquire = acquire,
                                     !.acquired = (acquire # "Error"),
                                     !.recorded = (acquire # "Error")]
         /\ UNCHANGED future
    ELSE IF submit = "Error"
    THEN /\ result' = Return("draw_frame", "", "panic", FALSE)
         /\ frame' = [NoFrame EXCEPT !.acquire = acquire, !.acquired = TRUE,
                                     !.recorded = TRUE]
         /\ future' = None
    ELSE /\ result' = Return("draw_frame", "", "Ok", draw_frame_value(acquire, submit))
         /\ frame' = [acquire |-> acquire, acquired |-> TRUE, recorded |-> TRUE,
                      submitted |-> (submit = "Ok"), presented |-> (submit = "Ok")]
         /\ future' = IF submit = "Ok" THEN Some(FrameFuture) ELSE None

\* what VulkanRenderer::draw_frame with draw_frame_infallible returns, what it did
\* and the future it leaves
draw_frame_outcome(acquire, submit) ==
    IF acquire = "OutOfDate"
    THEN \* vulkan.rs:158: nothing is recorded, the future stays
         /\ result' = Return("draw_frame", "", "Ok", draw_frame_value(acquire, submit))
         /\ frame' = [NoFrame EXCEPT !.acquire = acquire]
         /\ UNCHANGED future
    ELSE IF acquire = "Error" \/ future = None
    THEN \* vulkan.rs:159 and vulkan.rs:397
         /\ result' = Return("draw_frame", "", "panic", FALSE)
         /\ frame' = [NoFrame EXCEPT !.acquire = acquire,
                                     !.acquired = (acquire # "Error"),
                                     !.recorded = (acquire # "Error")]
         /\ UNCHANGED future
    ELSE IF submit = "Error"
    THEN \* vulkan.rs:417: the future was taken at vulkan.rs:394
         /\ result' = Return("draw_frame", "", "panic", FALSE)
         /\ frame' = [NoFrame EXCEPT !.acquire = acquire, !.acquired = TRUE,
                                     !.recorded = TRUE]
         /\ future' = None
    ELSE /\ result' = Return("draw_frame", "", "Ok", draw_frame_value(acquire, submit))
         /\ frame' = [acquire |-> acquire, acquired |-> TRUE, recorded |-> TRUE,
                      submitted |-> (submit = "Ok"), presented |-> (submit = "Ok")]
         /\ future' = IF submit = "Ok" THEN Some(FrameFuture) ELSE Some(Now)

\* VulkanRenderer::draw_frame with draw_frame_infallible, the commands it records
\* and the work of the queue left out
draw_frame(acquire, submit) ==
    /\ Alive
    /\ draw_frame_outcome(acquire, submit)
    /\ UNCHANGED <<bitmaps, shaders, geometries, skies, bsps, default_bitmaps, current_bsp,
                   param, vres, fl, presentation>>
    /\ host' = renderer_returns(host, result')

----------------------------------------------------------------------------
(* Renderer::new, the viewports and the swapchain (renderer.rs, player_viewport.rs) *)

\* Lengths relative to the window are counted in halves: 0 is 0.0, 1 is 0.5 and 2
\* is 1.0.  A rectangle is [rel_x, rel_y, rel_width, rel_height].
Rect(x, y, w, h) == [rel_x |-> x, rel_y |-> y, rel_width |-> w, rel_height |-> h]

\* the two switches of a camera read by draw_frame_infallible (vulkan.rs:264,
\* vulkan.rs:336), as a new camera has them
Camera_default_switches == [fog |-> TRUE, lightmaps |-> TRUE]

\* impl Default for Camera; the field of view is in degrees
Camera_default ==
    [fov |-> 70, position |-> <<0, 0, 0>>, rotation |-> <<0, 1, 0>>,
     fog |-> Camera_default_switches.fog, lightmaps |-> Camera_default_switches.lightmaps]

\* impl Default for PlayerViewport
PlayerViewport_default == [rect |-> Rect(0, 0, 2, 2), camera |-> Camera_default]

\* rectangles that put two viewports side by side
viewport_rects_side_by_side(number_of_viewports) ==
    IF number_of_viewports = 2 THEN << Rect(0, 0, 1, 2), Rect(1, 0, 1, 2) >>
    ELSE [i \in 1..number_of_viewports |-> IF number_of_viewports \in 1..4
                                           THEN Rect(0, 0, 2, 2) ELSE Rect(0, 0, 0, 0)]

\* the rectangles Renderer::new gives to number_of_viewports viewports
\* (renderer.rs:52-104); << >> when the number is not supported
viewport_rects(number_of_viewports) ==
    CASE number_of_viewports = 1 -> << Rect(0, 0, 2, 2) >>
      [] number_of_viewports = 2 -> << Rect(0, 0, 2, 1), Rect(0, 1, 2, 1) >>
      [] number_of_viewports = 3 -> << Rect(0, 0, 2, 1), Rect(0, 1, 1, 1), Rect(1, 1, 1, 1) >>
      [] number_of_viewports = 4 -> << Rect(0, 0, 1, 1), Rect(1, 0, 1, 1),
                                       Rect(0, 1, 1, 1), Rect(1, 1, 1, 1) >>
      [] OTHER -> << >>

\* the player_viewports of a new renderer
new_player_viewports(number_of_viewports) ==
    [i \in 1..Len(viewport_rects(number_of_viewports)) |->
        [PlayerViewport_default EXCEPT !.rect = viewport_rects(number_of_viewports)[i]]]

Resolution(width, height) == [width |-> width, height |-> height]

\* the swapchain with its images, its image views and current_resolution: id tells
\* the swapchain objects built or recreated one after the other apart
SwapchainOf(id, resolution) ==
    [swapchain |-> [id |-> id, image_extent |-> resolution],
     swapchain_images |-> [of |-> id],
     swapchain_image_views |-> [of |-> id],
     current_resolution |-> resolution]

\* no renderer has been constructed
NoSwapchain == SwapchainOf(0, Resolution(0, 0))

\* RendererParameters::default, number_of_viewports aside
DefaultResolution == Resolution(640, 480)

\* a renderer has been constructed
Constructed == swapchain # NoSwapchain

\* the swapchains one run of the model builds
MaxSwapchains == 3

\* Renderer::new, its result (renderer.rs:46-48, 52-108, 111)
Renderer_new_status(parameters, backend_ok) ==
    IF parameters.resolution.height = 0 \/ parameters.resolution.width = 0 THEN "DataError"
    ELSE IF viewport_rects(parameters.number_of_viewports) = << >> THEN "DataError"
    ELSE IF ~backend_ok THEN "GraphicsAPIError"
    ELSE "Ok"

\* Renderer::new; backend_ok tells whether VulkanRenderer::new succeeds
Renderer_new(parameters, backend_ok) ==
    LET status == Renderer_new_status(parameters, backend_ok)
    IN  /\ ~Constructed
        /\ result' = Return("new", "", status, FALSE)
        /\ IF status = "Ok"
           THEN /\ player_viewports' = new_player_viewports(parameters.number_of_viewports)
                /\ swapchain' = SwapchainOf(1, parameters.resolution)
                /\ future' = Some(Now)
           ELSE UNCHANGED <<player_viewports, swapchain, future>>
        /\ frame' = NoFrame
        /\ commands' = << >>
        /\ UNCHANGED <<tables, default_bitmaps, current_bsp, param, host, vres, fl, gpu>>

\* a rebuild that stores the resolution before it recreates the swapchain
rebuilt_swapchain_resolution_first(parameters, recreate) ==
    IF recreate = "Ok"
    THEN SwapchainOf(swapchain.swapchain.id + 1, parameters.resolution)
    ELSE [swapchain EXCEPT !.current_resolution = parameters.resolution]

\* the fields after VulkanRenderer::rebuild_swapchain (vulkan.rs:165-179): recreate
\* is the outcome of Swapchain::recreate, "ViewError" a recreate that worked
\* followed by an ImageView::new_default that fails
rebuilt_swapchain(parameters, recreate) ==
    IF recreate = "Error" THEN swapchain
    ELSE IF recreate = "ViewError"
    THEN [swapchain EXCEPT
             !.swapchain = [id |-> swapchain.swapchain.id + 1,
                            image_extent |-> parameters.resolution],
             !.swapchain_images = [of |-> swapchain.swapchain.id + 1]]
    ELSE SwapchainOf(swapchain.swapchain.id + 1, parameters.resolution)

RecreateOutcomes == {"Ok", "Error", "ViewError"}

\* Renderer::rebuild_swapchain (renderer.rs:310-317)
rebuild_swapchain(parameters, recreate) ==
    /\ Alive
    /\ swapchain.swapchain.id < MaxSwapchains
    /\ IF parameters.resolution.height = 0 \/ parameters.resolution.width = 0
       THEN /\ result' = Return("rebuild_swapchain", "", "DataError", FALSE)
            /\ UNCHANGED swapchain
       ELSE /\ result' = Return("rebuild_swapchain", "",
                                CASE recreate = "Ok" -> "Ok"
                                  [] recreate = "Error" -> "GraphicsAPIError"
                                  [] OTHER -> "panic",
                                FALSE)
            /\ swapchain' = rebuilt_swapchain(parameters, recreate)
    /\ frame' = NoFrame
    /\ commands' = << >>
    /\ UNCHANGED <<tables, default_bitmaps, current_bsp, future, param, host, vres, fl,
                   player_viewports, gpu>>

----------------------------------------------------------------------------
(* The queue: the frames draw_frame hands to the device (vulkan.rs:394-420) *)

\* The swapchain has at least two images (helper.rs:96); how many is the device's
\* choice.
MinImages == 2
MaxImages == 3
\* the frames one run of the queue model submits
MaxFrames == 4

\* gpu.images is the number of images of the swapchain, gpu.frames the command
\* buffers given to the queue, oldest first.  A frame records what its submission
\* was chained after: after is the position in gpu.frames of the frame whose fence
\* future was joined (0: the joined future was vulkano::sync::now), waits_image
\* tells that the acquire future of its image was joined, present that a present of
\* the image was chained after the execution.  acquired, state and presented are
\* the device's progress.
IdleQueue(images) == [images |-> images, frames |-> << >>]

\* a frame the device has not finished
Incomplete(f) == f.state # "complete"

\* the images acquire_next_image can hand out: those of no frame that still waits
\* for its present
FreeImages ==
    {i \in 1..gpu.images :
        \A k \in 1..Len(gpu.frames) :
            gpu.frames[k].image = i => (gpu.frames[k].presented \/ ~gpu.frames[k].present)}

\* a chain that waits for the frame before the one submitted last
chained_after_stale ==
    IF future = Some(FrameFuture) THEN Len(gpu.frames) - 1 ELSE 0

\* future.join(image_future).then_execute(..) (vulkan.rs:403-405): the frame the
\* commands are chained after
chained_after ==
    IF future = Some(FrameFuture) THEN Len(gpu.frames) ELSE 0

\* the submission of vulkan.rs:403-408 when the flush succeeds
Submitted(image) ==
    [after |-> chained_after, waits_image |-> TRUE, image |-> image, present |-> TRUE,
     acquired |-> FALSE, state |-> "queued", presented |-> FALSE]

\* vulkan.rs:413-415, the present is out of date: the commands were given to the
\* queue, no present follows, and the chain of futures is dropped, which blocks
\* until the queue is idle (vulkano's futures wait for the queue when they are
\* dropped unfinished)
QueueIdle(frames) ==
    [k \in 1..Len(frames) |->
        [frames[k] EXCEPT !.acquired = TRUE, !.state = "complete",
                          !.presented = frames[k].present]]

\* draw_frame with the queue: image is the image acquire_next_image returns (the
\* call blocks while there is none, vulkan.rs:156)
draw_frame_queue(acquire, submit, image) ==
    /\ Alive
    /\ Len(gpu.frames) < MaxFrames
    /\ acquire \in {"Ok", "Suboptimal"} => image \in FreeImages
    /\ draw_frame_outcome(acquire, submit)
    /\ gpu' = IF acquire \in {"Ok", "Suboptimal"} /\ future # None /\ submit = "Ok"
              THEN [gpu EXCEPT !.frames = Append(@, Submitted(image))]
              ELSE IF acquire \in {"Ok", "Suboptimal"} /\ future # None /\ submit = "OutOfDate"
              THEN [gpu EXCEPT !.frames =
                        QueueIdle(Append(@, [Submitted(image) EXCEPT !.present = FALSE]))]
              ELSE gpu
    /\ UNCHANGED <<bitmaps, shaders, geometries, skies, bsps, default_bitmaps, current_bsp,
                   param, vres, fl, player_viewports, swapchain, commands>>
    /\ host' = renderer_returns(host, result')

\* The device.  It signals the acquire future of a frame's image, starts the
\* commands of a frame when everything they were chained after is complete,
\* finishes them, and presents an image after the commands that drew it.
image_acquired(k) ==
    /\ k \in 1..Len(gpu.frames)
    /\ ~gpu.frames[k].acquired
    /\ gpu' = [gpu EXCEPT !.frames[k].acquired = TRUE]
    /\ frame' = NoFrame
    /\ UNCHANGED <<tables, default_bitmaps, current_bsp, future, result, param, host, vres, fl,
                   player_viewports, swapchain, commands>>

MayExecute(k) ==
    /\ gpu.frames[k].state = "queued"
    /\ gpu.frames[k].waits_image => gpu.frames[k].acquired
    /\ gpu.frames[k].after # 0 => ~Incomplete(gpu.frames[gpu.frames[k].after])

commands_execute(k) ==
    /\ k \in 1..Len(gpu.frames)
    /\ MayExecute(k)
    /\ gpu' = [gpu EXCEPT !.frames[k].state = "executing"]
    /\ frame' = NoFrame
    /\ UNCHANGED <<tables, default_bitmaps, current_bsp, future, result, param, host, vres, fl,
                   player_viewports, swapchain, commands>>

commands_complete(k) ==
    /\ k \in 1..Len(gpu.frames)
    /\ gpu.frames[k].state = "executing"
    /\ gpu' = [gpu EXCEPT !.frames[k].state = "complete"]
    /\ frame' = NoFrame
    /\ UNCHANGED <<tables, default_bitmaps, current_bsp, future, result, param, host, vres, fl,
                   player_viewports, swapchain, commands>>

image_presented(k) ==
    /\ k \in 1..Len(gpu.frames)
    /\ gpu.frames[k].present /\ ~gpu.frames[k].presented
    /\ gpu.frames[k].state = "complete"
    /\ gpu' = [gpu EXCEPT !.frames[k].presented = TRUE]
    /\ frame' = NoFrame
    /\ UNCHANGED <<tables, default_bitmaps, current_bsp, future, result, param, host, vres, fl,
                   player_viewports, swapchain, commands>>

----------------------------------------------------------------------------
(* The commands of a frame (vulkan.rs:236-360) and the cameras (renderer.rs:326-335) *)

\* a field of view in degrees: pi is 180
PI == 180

\* Vec3::try_normalize on the rotations of the model, which lie on one axis: None
\* for the zero vector
Sign(x) == IF x > 0 THEN 1 ELSE IF x < 0 THEN -1 ELSE 0
try_normalize(v) ==
    IF Dot(v, v) = 0 THEN None ELSE Some(<< Sign(v[1]), Sign(v[2]), Sign(v[3]) >>)

\* the switches of the camera given to set_camera_for_viewport are stored with it
stored_switches(camera) == [fog |-> camera.fog, lightmaps |-> camera.lightmaps]

\* the camera set_camera_for_viewport stores (renderer.rs:330-334)
stored_camera(camera) ==
    [fov |-> camera.fov,
     position |-> camera.position,
     rotation |-> IF try_normalize(camera.rotation) = None THEN <<0, 1, 0>>
                  ELSE Unwrap(try_normalize(camera.rotation)),
     fog |-> stored_switches(camera).fog,
     lightmaps |-> stored_switches(camera).lightmaps]

\* Renderer::set_camera_for_viewport: the assert on the field of view and the
\* index into player_viewports panic
set_camera_for_viewport(viewport, camera) ==
    /\ Alive
    /\ IF ~(camera.fov > 0 /\ camera.fov < PI) \/ ~InRange(player_viewports, viewport)
       THEN /\ result' = Return("set_camera_for_viewport", "", "panic", FALSE)
            /\ UNCHANGED player_viewports
       ELSE /\ result' = Return("set_camera_for_viewport", "", "Ok", FALSE)
            /\ player_viewports' =
                  [player_viewports EXCEPT ![viewport + 1].camera = stored_camera(camera)]
    /\ frame' = NoFrame
    /\ commands' = << >>
    /\ UNCHANGED <<tables, default_bitmaps, current_bsp, future, param, vres, fl,
                   swapchain, gpu>>
    /\ host' = renderer_returns(host, result')

\* impl Default for FogData
FogData_default ==
    [color |-> <<0, 0, 0, 0>>, distance_from |-> 0, distance_to |-> 1,
     min_opacity |-> 0, max_opacity |-> 0]

\* the FogData of a sky (vulkan.rs:249-257)
FogData_of(sky) ==
    [color |-> <<sky.outdoor_fog_color[1], sky.outdoor_fog_color[2],
                 sky.outdoor_fog_color[3], 0>>,
     distance_from |-> sky.outdoor_fog_start_distance,
     distance_to |-> sky.outdoor_fog_opaque_distance,
     min_opacity |-> 0,
     max_opacity |-> sky.outdoor_fog_maximum_density]

\* currently_loaded_bsp (vulkan.rs:182-187)
currently_loaded_bsp ==
    IF current_bsp # None /\ contains_key(bsps, Unwrap(current_bsp))
    THEN bsps[Unwrap(current_bsp)] ELSE BSP_default

\* the sky of a viewport (vulkan.rs:243-245); the outcome is "panic" when
\* find_cluster does not return or the cluster index is out of range
viewport_sky(bsp, i) ==
    LET cluster_index == find_cluster(bsp.bsp_data, i.camera.position)
    IN  IF cluster_index.outcome # "return" THEN [outcome |-> "panic", value |-> None]
        ELSE IF cluster_index.value = None THEN [outcome |-> "return", value |-> None]
        ELSE IF ~InRange(bsp.bsp_data.clusters, Unwrap(cluster_index.value))
        THEN [outcome |-> "panic", value |-> None]
        ELSE LET cluster == At(bsp.bsp_data.clusters, Unwrap(cluster_index.value))
             IN  IF cluster.sky = None THEN [outcome |-> "return", value |-> None]
                 ELSE IF contains_key(skies, Unwrap(cluster.sky))
                 THEN [outcome |-> "return", value |-> Some(skies[Unwrap(cluster.sky)])]
                 ELSE [outcome |-> "return", value |-> None]

\* a fog that looks at the sky only, whatever the camera's switch says
viewport_fog_ignores_switch(bsp, i) ==
    IF viewport_sky(bsp, i).value = None THEN FogData_default
    ELSE FogData_of(Unwrap(viewport_sky(bsp, i).value))

\* fog_data of a viewport (vulkan.rs:247-266)
viewport_fog(bsp, i) ==
    IF viewport_sky(bsp, i).value = None \/ ~i.camera.fog THEN FogData_default
    ELSE FogData_of(Unwrap(viewport_sky(bsp, i).value))

\* VulkanMaterial::is_transparent (material.rs:64-66): no material overrides it
is_transparent(shader) == FALSE

\* what the specification means by a transparent shader: its type
transparent_type(shader) ==
    shader.shader_type \in {"TransparentGeneric", "TransparentChicago", "TransparentGlass",
                            "TransparentMeter", "TransparentPlasma", "TransparentWater"}

\* the batches the loop of vulkan.rs:325 visits: those of geo_shader_iterator whose
\* material is not transparent, in its order
opaque(bsp) ==
    SelectSeq(bsp.geometry_indices_sorted_by_material,
              LAMBDA g : ~is_transparent(shaders[At(bsp.geometries, g).shader]))

\* a last_shader that is not cleared at the start of a viewport: before the first
\* batch it holds the shader of the last batch
last_shader_kept(bsp, j) ==
    IF j > 1 THEN Some(At(bsp.geometries, opaque(bsp)[j - 1]).shader)
    ELSE Some(At(bsp.geometries, opaque(bsp)[Len(opaque(bsp))]).shader)

\* last_shader when the j-th batch of a viewport is reached (vulkan.rs:324-333):
\* None at the start of the viewport, then the shader of the batch before
last_shader(bsp, j) ==
    IF j > 1 THEN Some(At(bsp.geometries, opaque(bsp)[j - 1]).shader) ELSE None

\* the draws of a viewport (vulkan.rs:323-359): one draw_indexed for every batch
\* visited
viewport_draws(bsp, i) ==
    [j \in 1..Len(opaque(bsp)) |->
        LET geometry == At(bsp.geometries, opaque(bsp)[j])
        IN  [geometry |-> opaque(bsp)[j],
             shader |-> geometry.shader,
             repeat_shader |-> last_shader(bsp, j) = Some(geometry.shader),
             desired_lightmap |-> IF i.camera.lightmaps THEN geometry.lightmap_index
                                  ELSE None]]

\* the commands that bind state or draw: what they bind (a pipeline, or the
\* descriptor set of a slot), whose it is, and the batch a draw_indexed draws (0:
\* none)
BindPipeline(of) == [op |-> "bind_pipeline_graphics", slot |-> 0, of |-> of, batch |-> 0]
BindDescriptorSet(slot, of) ==
    [op |-> "bind_descriptor_sets", slot |-> slot, of |-> of, batch |-> 0]
DrawIndexed(batch) == [op |-> "draw_indexed", slot |-> 0, of |-> "", batch |-> batch]

\* draw_box (vulkan.rs:746-757)
draw_box == << BindDescriptorSet(1, "ColorBox"), BindPipeline("ColorBox"), DrawIndexed(0) >>

\* VulkanShaderEnvironmentMaterial::generate_commands for the batch
\* (shader_environment.rs:132-151)
shader_environment_generate_commands(shader, repeat_shader, batch) ==
    (IF ~repeat_shader THEN << BindPipeline(shader), BindDescriptorSet(3, shader) >> ELSE << >>)
        \o << DrawIndexed(batch) >>

\* generate_commands of the material of a BasicShader: it rebinds its pipeline
\* and descriptor set unless the shader repeats
simple_shader_generate_commands(shader, repeat_shader, batch) ==
    (IF ~repeat_shader THEN << BindPipeline(shader), BindDescriptorSet(3, shader) >> ELSE << >>)
        \o << DrawIndexed(batch) >>

\* the commands of a viewport that bind state or draw (vulkan.rs:297-359)
viewport_commands(bsp, i) ==
    draw_box
        \o << BindDescriptorSet(2, "fog"), BindDescriptorSet(0, "main") >>
        \o Flatten([j \in 1..Len(viewport_draws(bsp, i)) |->
               LET draw == viewport_draws(bsp, i)[j]
               IN  << BindDescriptorSet(1, "lightmap") >>
                       \o (IF shaders[draw.shader].material = "ShaderEnvironment"
                           THEN shader_environment_generate_commands(
                                    draw.shader, draw.repeat_shader, j)
                           ELSE simple_shader_generate_commands(
                                    draw.shader, draw.repeat_shader, j))])

\* the loop over the viewports panics: find_cluster does not return, the cluster
\* is out of range, or a shader is not in the table (vulkan.rs:313)
recording_panics(bsp) ==
    \/ \E v \in 1..Len(player_viewports) : viewport_sky(bsp, player_viewports[v]).outcome = "panic"
    \/ /\ player_viewports # << >>
       /\ \E g \in 1..Len(bsp.geometries) : ~contains_key(shaders, bsp.geometries[g].shader)

\* the commands recorded for the viewports (vulkan.rs:242-360): the viewport in
\* pixels, its fog and its draws
recorded_commands(bsp) ==
    [v \in 1..Len(player_viewports) |->
        LET i == player_viewports[v]
            width == swapchain.current_resolution.width
            height == swapchain.current_resolution.height
        IN  [offset |-> << (i.rect.rel_x * width) \div 2, (i.rect.rel_y * height) \div 2 >>,
             extent |-> << (i.rect.rel_width * width) \div 2,
                           (i.rect.rel_height * height) \div 2 >>,
             fog_data |-> viewport_fog(bsp, i),
             draws |-> viewport_draws(bsp, i),
             stream |-> viewport_commands(bsp, i)]]

\* draw_frame with the commands it records
draw_frame_recording(acquire, submit) ==
    /\ Alive
    /\ IF acquire \in {"Ok", "Suboptimal"} /\ recording_panics(currently_loaded_bsp)
       THEN /\ result' = Return("draw_frame", "", "panic", FALSE)
            /\ frame' = [NoFrame EXCEPT !.acquire = acquire, !.acquired = TRUE]
            /\ commands' = << >>
            /\ UNCHANGED future
       ELSE /\ draw_frame_outcome(acquire, submit)
            /\ commands' = IF acquire \in {"Ok", "Suboptimal"}
                           THEN recorded_commands(currently_loaded_bsp) ELSE << >>
    /\ UNCHANGED <<tables, default_bitmaps, current_bsp, param, vres, fl,
                   player_viewports, swapchain, gpu>>
    /\ host' = renderer_returns(host, result')

\* the assets of the frames the model draws: shader "a" is of a transparent type,
\* shader "b" is an environment shader, and the three batches of the BSP use "b",
\* "a" and "b"
DrawBSP ==
    [BspTwoClusters EXCEPT !.lightmap_sets =
        << [lightmap_index |-> None,
            materials |-> << MaterialOf("b"), MaterialOf("a"), MaterialOf("b") >>] >>]
DrawBitmaps == insert(EmptyMap, "a", Bitmap_load_from_parameters(Bitmap4x2D))
DrawShaders ==
    insert(insert(EmptyMap,
                  "a", Shader_load_from_parameters(BasicShader(Some("a"), "TransparentGeneric"))),
           "b", Shader_load_from_parameters(ShaderEnvironment(Some("a"), None)))
DrawSkies == insert(EmptyMap, "a", SkyOf(1, 100, 500, None))
\* a BSP whose two batches both use the shader "b"
DrawBSPOneShader ==
    [BspTwoClusters EXCEPT !.lightmap_sets =
        << [lightmap_index |-> None, materials |-> << MaterialOf("b"), MaterialOf("b") >>] >>]
DrawBSPs ==
    insert(insert(EmptyMap, "a", BSP_load_from_parameters(DrawBSP)),
           "b", BSP_load_from_parameters(DrawBSPOneShader))

\* the cameras given to set_camera_for_viewport
CameraInputs ==
    [fov : {0, 70}, position : {<<-1, 0, 0>>, <<0, 0, 0>>},
     rotation : {<<0, 0, 0>>, <<0, 2, 0>>}, fog : BOOLEAN, lightmaps : BOOLEAN]

----------------------------------------------------------------------------
(* The renderer and its callers *)

IdleValidation == [done |-> FALSE, err |-> None, nodes_tested |-> << >>, max_depth |-> 0]
IdleLocation ==
    [done |-> FALSE, position |-> <<0, 0, 0>>,
     leaf |-> Returned(None, << >>), cluster |-> Returned(None, << >>)]

\* Renderer::new
Init ==
    /\ bitmaps = EmptyMap
    /\ shaders = EmptyMap
    /\ geometries = EmptyMap
    /\ skies = EmptyMap
    /\ bsps = EmptyMap
    /\ default_bitmaps = None
    /\ current_bsp = None
    /\ future = Some(Now)
    /\ result = Return("new", "", "Ok", FALSE)
    /\ frame = NoFrame
    /\ param = BspEmpty
    /\ vres = IdleValidation
    /\ fl = IdleLocation
    /\ host = NoHost
    /\ player_viewports = new_player_viewports(1)
    /\ swapchain = SwapchainOf(1, DefaultResolution)
    /\ commands = << >>
    /\ gpu = IdleQueue(MinImages)

Next ==
    \/ \E i \in BitmapInputs, ok \in BOOLEAN : add_bitmap(i[1], i[2], ok)
    \/ \E i \in ShaderInputs, ok \in BOOLEAN : add_shader(i[1], i[2], ok)
    \/ \E i \in SkyInputs : add_sky(i[1], i[2])
    \/ \E i \in BSPInputs, ok \in BOOLEAN : add_bsp(i[1], i[2], ok)
    \/ \E path \in Opt({"a", "b"}) : set_current_bsp(path)
    \/ \E d \in DefaultInputs : set_default_bitmaps(d)
    \/ reset
    \/ \E acquire \in AcquireOutcomes, submit \in SubmitOutcomes : draw_frame(acquire, submit)

Spec == Init /\ [][Next]_vars

----------------------------------------------------------------------------
(* add_bsp's validation and the point location, on every tree of the bounds *)

\* the renderer after add_bitmap("a"), add_shader("a") and add_sky("a"), about to
\* be handed one of the BSPs of NodeFamily and ClusterFamily
InitBSP ==
    /\ bitmaps = insert(EmptyMap, "a", Bitmap_load_from_parameters(Bitmap4x2D))
    /\ shaders = insert(EmptyMap, "a",
                        Shader_load_from_parameters(BasicShader(Some("a"), "TransparentGeneric")))
    /\ geometries = EmptyMap
    /\ skies = insert(EmptyMap, "a", SkyOf(1, 100, 500, None))
    /\ bsps = EmptyMap
    /\ default_bitmaps = None
    /\ current_bsp = None
    /\ future = Some(Now)
    /\ result = Return("add_sky", "a", "Ok", FALSE)
    /\ frame = NoFrame
    /\ param \in {BSPOf("a", data) : data \in NodeFamily \cup ClusterFamily}
    /\ vres = IdleValidation
    /\ fl = IdleLocation
    /\ host = NoHost
    /\ player_viewports = new_player_viewports(1)
    /\ swapchain = SwapchainOf(1, DefaultResolution)
    /\ commands = << >>
    /\ gpu = IdleQueue(MinImages)

\* add_bsp calls AddBSPParameter::validate (renderer.rs:226)
Validate ==
    /\ ~vres.done
    /\ LET v == AddBSPParameter_validate(param, Renderer)
       IN  vres' = [done |-> TRUE, err |-> v.err, nodes_tested |-> v.nodes_tested,
                    max_depth |-> v.max_depth]
    /\ UNCHANGED <<bitmaps, shaders, geometries, skies, bsps, default_bitmaps, current_bsp,
                   future, result, frame, param, host, fl, presentation>>

\* draw_frame calls find_cluster on an accepted BSP (vulkan.rs:244)
Locate(position) ==
    /\ vres.done /\ vres.err = None
    /\ ~fl.done
    /\ fl' = [done |-> TRUE, position |-> position,
              leaf |-> find_leaf(param.bsp_data, position),
              cluster |-> find_cluster(param.bsp_data, position)]
    /\ UNCHANGED <<bitmaps, shaders, geometries, skies, bsps, default_bitmaps, current_bsp,
                   future, result, frame, param, host, vres, presentation>>

NextBSP ==
    \/ Validate
    \/ \E position \in Positions : Locate(position)

SpecBSP == InitBSP /\ [][NextBSP]_vars

----------------------------------------------------------------------------
(* draw_frame called over and over on a device that is free to be slow *)

InitQueue ==
    /\ bitmaps = EmptyMap /\ shaders = EmptyMap /\ geometries = EmptyMap
    /\ skies = EmptyMap /\ bsps = EmptyMap
    /\ default_bitmaps = None
    /\ current_bsp = None
    /\ future = Some(Now)
    /\ result = Return("new", "", "Ok", FALSE)
    /\ frame = NoFrame
    /\ param = BspEmpty
    /\ vres = IdleValidation
    /\ fl = IdleLocation
    /\ host = NoHost
    /\ player_viewports = new_player_viewports(1)
    /\ swapchain = SwapchainOf(1, DefaultResolution)
    /\ commands = << >>
    /\ gpu \in {IdleQueue(n) : n \in MinImages..MaxImages}

NextQueue ==
    \/ \E acquire \in AcquireOutcomes, submit \in SubmitOutcomes, image \in 1..MaxImages :
          draw_frame_queue(acquire, submit, image)
    \/ \E k \in 1..MaxFrames : image_acquired(k)
    \/ \E k \in 1..MaxFrames : commands_execute(k)
    \/ \E k \in 1..MaxFrames : commands_complete(k)
    \/ \E k \in 1..MaxFrames : image_presented(k)

SpecQueue == InitQueue /\ [][NextQueue]_vars

----------------------------------------------------------------------------
(* Two viewports drawn with their cameras, over the assets of DrawBSP *)

\* the viewports of the drawn frames
DrawViewports == 2

InitDraw ==
    /\ bitmaps = DrawBitmaps /\ shaders = DrawShaders /\ geometries = EmptyMap
    /\ skies = DrawSkies /\ bsps = DrawBSPs
    /\ default_bitmaps = None
    /\ current_bsp = None
    /\ future = Some(Now)
    /\ result = Return("add_bsp", "a", "Ok", FALSE)
    /\ frame = NoFrame
    /\ param = BspEmpty
    /\ vres = IdleValidation
    /\ fl = IdleLocation
    /\ host = NoHost
    /\ player_viewports = new_player_viewports(DrawViewports)
    /\ swapchain = SwapchainOf(1, DefaultResolution)
    /\ commands = << >>
    /\ gpu = IdleQueue(MinImages)

NextDraw ==
    \/ \E viewport \in 0..DrawViewports, camera \in CameraInputs :
          set_camera_for_viewport(viewport, camera)
    \/ \E path \in Opt({"a", "b"}) : set_current_bsp(path)
    \/ \E acquire \in AcquireOutcomes, submit \in SubmitOutcomes :
          draw_frame_recording(acquire, submit)

SpecDraw == InitDraw /\ [][NextDraw]_vars

----------------------------------------------------------------------------
(* A renderer from its construction on: the viewports and the swapchain *)

\* the largest number_of_viewports given to Renderer::new
MaxViewportsAsked == 5

\* the RendererParameters of the model
ParameterInputs ==
    [resolution : {Resolution(640, 480), Resolution(800, 600),
                   Resolution(0, 600), Resolution(800, 0)},
     number_of_viewports : 0..MaxViewportsAsked]

\* the cameras given to set_camera_for_viewport after the construction
NewCameraInputs ==
    {c \in CameraInputs : c.fov = 70 /\ c.fog /\ c.lightmaps /\ c.rotation = <<0, 2, 0>>}

InitNew ==
    /\ bitmaps = EmptyMap /\ shaders = EmptyMap /\ geometries = EmptyMap
    /\ skies = EmptyMap /\ bsps = EmptyMap
    /\ default_bitmaps = None
    /\ current_bsp = None
    /\ future = None
    /\ result = Return("none", "", "Ok", FALSE)
    /\ frame = NoFrame
    /\ param = BspEmpty
    /\ vres = IdleValidation
    /\ fl = IdleLocation
    /\ host = NoHost
    /\ player_viewports = << >>
    /\ swapchain = NoSwapchain
    /\ commands = << >>
    /\ gpu = IdleQueue(MinImages)

NextNew ==
    \/ \E parameters \in ParameterInputs, backend_ok \in BOOLEAN :
          Renderer_new(parameters, backend_ok)
    \/ \E parameters \in ParameterInputs, recreate \in RecreateOutcomes :
          Constructed /\ rebuild_swapchain(parameters, recreate)
    \/ \E viewport \in 0..MaxViewportsAsked, camera \in NewCameraInputs :
          Constructed /\ set_camera_for_viewport(viewport, camera)
    \/ \E acquire \in AcquireOutcomes, submit \in SubmitOutcomes :
          Constructed /\ draw_frame_recording(acquire, submit)

SpecNew == InitNew /\ [][NextNew]_vars

----------------------------------------------------------------------------
(* The default bitmaps, over bitmaps that are fit for a default and bitmaps that are not *)

NextDefaults ==
    \/ \E i \in DefaultBitmapInputs : add_bitmap(i[1], i[2], TRUE)
    \/ \E d \in DefaultInputs : set_default_bitmaps(d)
    \/ reset

SpecDefaults == Init /\ [][NextDefaults]_vars

----------------------------------------------------------------------------
(* Properties of the asset tables (Spec) *)

AddOps == {"add_bitmap", "add_shader", "add_sky", "add_bsp"}
Errors == {"DataError", "GraphicsAPIError"}

\* C1: a call of add_bitmap, add_shader, add_sky or add_bsp that returns an error
\* leaves the bitmap, shader, sky and BSP tables, current_bsp and the default
\* bitmaps exactly as they were before the call.
C1_FailedAddChangesNothing ==
    [][(result'.op \in AddOps /\ result'.status \in Errors)
           => UNCHANGED <<tables, current_bsp, default_bitmaps>>]_vars

\* a failed add_bsp on a renderer that has assets, a current BSP and default bitmaps
C1_Witness ==
    /\ result.op = "add_bsp" /\ result.status = "GraphicsAPIError"
    /\ DOMAIN bsps # {} /\ DOMAIN skies # {}
    /\ current_bsp # None
    /\ default_bitmaps # None

\* C7: add_shader (add_bsp) of a path that is already a key of the shader (BSP)
\* table returns a data error and changes no table; and as long as no reset is
\* called, the entry stored under a path of these two tables stays the one the
\* first successful add put there.
C7_DuplicatePathRejected ==
    [][/\ (result'.op = "add_shader" /\ contains_key(shaders, result'.path))
              => (result'.status = "DataError" /\ UNCHANGED tables)
       /\ (result'.op = "add_bsp" /\ contains_key(bsps, result'.path))
              => (result'.status = "DataError" /\ UNCHANGED tables)
       /\ result'.op # "reset"
              => /\ \A path \in DOMAIN shaders :
                        contains_key(shaders', path) /\ shaders'[path] = shaders[path]
                 /\ \A path \in DOMAIN bsps :
                        contains_key(bsps', path) /\ bsps'[path] = bsps[path]]_vars

\* add_bsp("a", ..) was refused while "a" holds the BSP of two clusters: the call
\* is not refused for its parameter (both BSPs of "a" are valid) nor for the backend
C7_Witness ==
    /\ result = Return("add_bsp", "a", "DataError", FALSE)
    /\ contains_key(bsps, "a")
    /\ Len(bsps["a"].bsp_data.clusters) = 2

\* C8: add_bitmap (add_sky) of a path that is already a key of the bitmap (sky)
\* table returns a data error and does not replace the entry; and add_bitmap
\* succeeds exactly when the path is no key of the bitmap table, the parameter is
\* valid and the backend builds it, whatever BSP paths are loaded.
C8_BitmapSkyDuplicateRejected ==
    [][/\ (result'.op = "add_bitmap" /\ contains_key(bitmaps, result'.path))
              => (result'.status = "DataError" /\ bitmaps' = bitmaps)
       /\ (result'.op = "add_sky" /\ contains_key(skies, result'.path))
              => (result'.status = "DataError" /\ skies' = skies)
       /\ \A i \in BitmapInputs, ok \in BOOLEAN :
              (add_bitmap_status(i[1], i[2], ok) = "Ok")
                  <=> /\ ~contains_key(bitmaps, i[1])
                      /\ AddBitmapParameter_validate(i[2]) = "Ok"
                      /\ ok]_vars

----------------------------------------------------------------------------
(* Properties of set_current_bsp and of set_default_bitmaps (Spec, SpecDefaults) *)

\* C18: set_current_bsp(Some(p)) returns an error and leaves current_bsp as it was
\* when p is not a path of the BSP table, sets current_bsp to p when it is one, and
\* set_current_bsp(None) leaves no current BSP; no call changes an asset table.
C18_SetCurrentBsp ==
    [][\A path \in Opt({"a", "b"}) :
          set_current_bsp(path) =>
             /\ tables' = tables
             /\ path = None => (result'.status = "Ok" /\ current_bsp' = None)
             /\ (path # None /\ Unwrap(path) \notin DOMAIN bsps)
                    => (result'.status \in Errors /\ current_bsp' = current_bsp)
             /\ (path # None /\ Unwrap(path) \in DOMAIN bsps)
                    => (result'.status = "Ok" /\ current_bsp' = path)]_vars

\* "b" was refused while "a" is the current BSP
C18_Witness ==
    /\ result.op = "set_current_bsp" /\ result.path = "b" /\ result.status = "DataError"
    /\ current_bsp = Some("a")

\* C19: while the default bitmaps are set, every set_default_bitmaps returns an
\* error (only reset unsets them), and a set_default_bitmaps that returns an error
\* changes neither the default bitmaps nor a table.
C19_DefaultBitmapsSetOnce ==
    [][/\ \A d \in DefaultInputs :
             set_default_bitmaps(d) =>
                /\ default_bitmaps # None => result'.status \in Errors
                /\ result'.status \in Errors =>
                      (default_bitmaps' = default_bitmaps /\ tables' = tables)
       /\ (default_bitmaps # None /\ default_bitmaps' # default_bitmaps)
              => (result'.op = "reset" /\ default_bitmaps' = None)]_vars

\* a set_default_bitmaps refused because the default bitmaps are set
C19_Witness ==
    /\ result.op = "set_default_bitmaps" /\ result.status = "DataError"
    /\ default_bitmaps # None
    /\ set_default_bitmaps_status_again(Unwrap(default_bitmaps)) = "Ok"

\* the bitmap designated by path is fit for the default of the kind: it is loaded,
\* has four bitmaps, all of the kind, and no sequence of sprites
FitForDefault(path, kind) ==
    /\ path \in DOMAIN bitmaps
    /\ Len(bitmaps[path].bitmaps) = 4
    /\ \A i \in 1..4 : bitmaps[path].bitmaps[i].bitmap_type.kind = kind
    /\ ~\E i \in 1..Len(bitmaps[path].sequences) : bitmaps[path].sequences[i].kind = "Sprites"

\* the paths of d that are not fit for what d designates them for
Offending(d) ==
    {p \in {d.default_2d} : ~FitForDefault(p, "Dim2D")}
        \cup {p \in {d.default_3d} : ~FitForDefault(p, "Dim3D")}
        \cup {p \in {d.default_cubemap} : ~FitForDefault(p, "Cubemap")}

\* C20: set_default_bitmaps succeeds only if the three bitmaps it names are loaded,
\* have exactly four bitmaps of the designated kind (2D, 3D, cubemap) and only
\* simple sequences; otherwise it returns a data error whose message names a path
\* that is not fit.
C20_DefaultBitmapsChecked ==
    [][\A d \in DefaultInputs :
          set_default_bitmaps(d) =>
             /\ result'.status = "Ok" => Offending(d) = {}
             /\ (Offending(d) # {} /\ default_bitmaps = None)
                    => (result'.status = "DataError" /\ result'.path \in Offending(d))]_vars

\* the bitmap designated as the 3D default is the 2D bitmap "a", and the error
\* names it
C20_Witness ==
    /\ result.op = "set_default_bitmaps" /\ result.status = "DataError"
    /\ default_bitmaps = None
    /\ result.path = "a"
    /\ FitForDefault("a", "Dim2D")

----------------------------------------------------------------------------
(* Properties of draw_frame (Spec) *)

NeedsRebuild == frame.acquire \in {"OutOfDate", "Suboptimal"} \/ ~frame.presented

\* C10: draw_frame returns Ok(true) exactly when the swapchain needs to be
\* rebuilt, and Ok(false) when the frame was acquired, submitted and presented with
\* no out-of-date or suboptimal report.
C10_TrueMeansRebuild ==
    (result.op = "draw_frame" /\ result.status = "Ok") => (result.value <=> NeedsRebuild)

\* the last call is a draw_frame that returned after the submission was reported
\* out of date: the commands were recorded and nothing was submitted
SubmitOutOfDate ==
    /\ result.op = "draw_frame" /\ result.status = "Ok"
    /\ frame.recorded /\ ~frame.submitted

----------------------------------------------------------------------------
(* Properties of the frames in flight (SpecQueue) *)

\* the frames given to the queue that the device has not finished
Outstanding == {k \in 1..Len(gpu.frames) : Incomplete(gpu.frames[k])}

\* the step is a draw_frame that gives a frame to the queue
SubmitsFrame == Len(gpu'.frames) > Len(gpu.frames)

\* C12: draw_frame does not submit a frame while more than one frame submitted
\* earlier is incomplete.
C12_AtMostOneOutstanding ==
    [][SubmitsFrame => Cardinality(Outstanding) <= 1]_vars

----------------------------------------------------------------------------
(* Properties of the recorded commands (SpecDraw) *)

\* the last call was a draw_frame that recorded the commands of a frame
RecordedFrame ==
    /\ result.op = "draw_frame" /\ Alive
    /\ frame.recorded
    /\ Len(commands) = Len(player_viewports)

\* the position of the batch g in geometry_indices_sorted_by_material
SortedPosition(bsp, g) ==
    CHOOSE k \in 1..Len(bsp.geometry_indices_sorted_by_material) :
        bsp.geometry_indices_sorted_by_material[k] = g

\* the batch of the draw is of a transparent shader
DrawsTransparent(bsp, draw) == transparent_type(shaders[draw.shader])

\* every batch of the BSP has exactly one draw in the viewport
EachBatchDrawnOnce(bsp, draws) ==
    \A g \in 0..(Len(bsp.geometries) - 1) :
        Cardinality({j \in 1..Len(draws) : draws[j].geometry = g}) = 1

\* among the opaque batches, and among the transparent ones, the draws follow
\* geometry_indices_sorted_by_material
DrawnInSortedOrder(bsp, draws) ==
    \A j, k \in 1..Len(draws) :
        (j < k /\ DrawsTransparent(bsp, draws[j]) = DrawsTransparent(bsp, draws[k]))
            => SortedPosition(bsp, draws[j].geometry) < SortedPosition(bsp, draws[k].geometry)

\* no batch of a transparent shader is drawn before a batch of an opaque one
OpaqueBeforeTransparent(bsp, draws) ==
    \A j, k \in 1..Len(draws) :
        (DrawsTransparent(bsp, draws[j]) /\ ~DrawsTransparent(bsp, draws[k])) => k < j

\* C14: in a frame that was recorded, every viewport has exactly one draw for
\* every geometry batch of the current BSP, in the order of
\* geometry_indices_sorted_by_material, the batches of opaque shaders before the
\* batches of transparent shaders.
C14_EachBatchOnceOpaqueFirst ==
    RecordedFrame =>
        \A v \in 1..Len(commands) :
            /\ EachBatchDrawnOnce(currently_loaded_bsp, commands[v].draws)
            /\ DrawnInSortedOrder(currently_loaded_bsp, commands[v].draws)
            /\ OpaqueBeforeTransparent(currently_loaded_bsp, commands[v].draws)

\* the fog the viewport is to have: the outdoor fog of the sky of the cluster of
\* the camera, and no fog (max_opacity 0) without a cluster, without a sky or
\* with the camera's fog switched off
ExpectedFog(bsp, i) ==
    LET found == find_cluster(bsp.bsp_data, i.camera.position)
        cluster == At(bsp.bsp_data.clusters, Unwrap(found.value))
    IN  IF ~i.camera.fog \/ found.value = None THEN None
        ELSE IF cluster.sky = None THEN None
        ELSE IF Unwrap(cluster.sky) \notin DOMAIN skies THEN None
        ELSE Some(skies[Unwrap(cluster.sky)])

\* C15: the fog of each viewport of a recorded frame is the outdoor fog of the sky
\* of the cluster find_cluster returns for the viewport's camera; without a
\* cluster, without a sky, or with the camera's fog switch off, the fog has
\* maximum opacity 0.
C15_FogOfCameraCluster ==
    RecordedFrame =>
        \A v \in 1..Len(commands) :
            LET sky == ExpectedFog(currently_loaded_bsp, player_viewports[v])
                fog == commands[v].fog_data
            IN  IF sky = None THEN fog.max_opacity = 0
                ELSE /\ fog.max_opacity = Unwrap(sky).outdoor_fog_maximum_density
                     /\ fog.distance_from = Unwrap(sky).outdoor_fog_start_distance
                     /\ fog.distance_to = Unwrap(sky).outdoor_fog_opaque_distance
                     /\ SubSeq(fog.color, 1, 3) = Unwrap(sky).outdoor_fog_color

\* one frame with a camera in the cluster of sky "a" and a camera in the cluster
\* without a sky, both with the fog switched on
C15_Witness ==
    /\ RecordedFrame
    /\ current_bsp = Some("a")
    /\ Len(commands) >= 2
    /\ player_viewports[1].camera.fog /\ player_viewports[2].camera.fog
    /\ player_viewports[1].camera.position = <<0, 0, 0>>
    /\ player_viewports[2].camera.position = <<-1, 0, 0>>
    /\ commands[1].fog_data.max_opacity = 1 /\ commands[1].fog_data.distance_to = 500
    /\ commands[2].fog_data.max_opacity = 0

----------------------------------------------------------------------------
(* Properties of the construction and of the swapchain (SpecNew) *)

ZeroResolution(parameters) ==
    parameters.resolution.width = 0 \/ parameters.resolution.height = 0

\* C16: rebuild_swapchain with a zero width or height returns an error; after a
\* rebuild_swapchain that returned an error the swapchain, its images, its image
\* views and current_resolution are as before the call; after one that succeeded
\* the four belong to the new swapchain of the resolution asked for.
C16_FailedRebuildKeepsSwapchain ==
    [][\A parameters \in ParameterInputs, recreate \in RecreateOutcomes :
          (Constructed /\ rebuild_swapchain(parameters, recreate)) =>
             /\ ZeroResolution(parameters) => result'.status \in Errors
             /\ result'.status \in Errors => swapchain' = swapchain
             /\ result'.status = "Ok" =>
                   /\ swapchain'.swapchain.id # swapchain.swapchain.id
                   /\ swapchain'.swapchain.image_extent = parameters.resolution
                   /\ swapchain'.swapchain_images.of = swapchain'.swapchain.id
                   /\ swapchain'.swapchain_image_views.of = swapchain'.swapchain.id
                   /\ swapchain'.current_resolution = parameters.resolution]_vars

\* a rebuild refused by the device after a rebuild that changed the resolution:
\* the swapchain of 800x600 is kept
C16_Witness ==
    /\ result.op = "rebuild_swapchain" /\ result.status = "GraphicsAPIError"
    /\ swapchain = SwapchainOf(2, Resolution(800, 600))

\* the rectangles of C17, in halves of the window
ExpectedRects(n) ==
    CASE n = 1 -> << <<0, 0, 2, 2>> >>
      [] n = 2 -> << <<0, 0, 2, 1>>, <<0, 1, 2, 1>> >>
      [] n = 3 -> << <<0, 0, 2, 1>>, <<0, 1, 1, 1>>, <<1, 1, 1, 1>> >>
      [] n = 4 -> << <<0, 0, 1, 1>>, <<1, 0, 1, 1>>, <<0, 1, 1, 1>>, <<1, 1, 1, 1>> >>
      [] OTHER -> << >>

RectsOf(viewports) ==
    [v \in 1..Len(viewports) |->
        << viewports[v].rect.rel_x, viewports[v].rect.rel_y,
           viewports[v].rect.rel_width, viewports[v].rect.rel_height >>]

\* C17: Renderer::new returns a data error for a number of viewports outside 1..4
\* and for a zero width or height; the renderer it constructs has the rectangles
\* listed for its number of viewports; no later call changes them.
C17_ViewportRectangles ==
    [][/\ \A parameters \in ParameterInputs, backend_ok \in BOOLEAN :
             Renderer_new(parameters, backend_ok) =>
                /\ (parameters.number_of_viewports \notin 1..4 \/ ZeroResolution(parameters))
                       => (result'.status = "DataError" /\ ~Constructed')
                /\ Constructed' =>
                       /\ Len(player_viewports') = parameters.number_of_viewports
                       /\ RectsOf(player_viewports')
                              = ExpectedRects(parameters.number_of_viewports)
       /\ Constructed => RectsOf(player_viewports') = RectsOf(player_viewports)]_vars

\* three viewports whose cameras were moved, after a rebuild of the swapchain
C17_Witness ==
    /\ Constructed
    /\ RectsOf(player_viewports) = ExpectedRects(3)
    /\ player_viewports[3].camera.position = <<-1, 0, 0>>
    /\ swapchain.swapchain.id > 1

----------------------------------------------------------------------------
(* Properties of the BSP validation and of the point location (SpecBSP) *)

\* the nodes a node refers to as front or back child, the references to nodes that
\* do not exist left out
ChildNodes(data, n) ==
    {c.index : c \in {r \in {At(data.nodes, n).front_child, At(data.nodes, n).back_child} :
                          r.kind = "Node" /\ InRange(data.nodes, r.index)}}

\* the nodes reached from the nodes of S by following child references
RECURSIVE ReachableFrom(_, _)
ReachableFrom(data, S) ==
    LET T == S \cup UNION {ChildNodes(data, n) : n \in S}
    IN  IF T = S THEN S ELSE ReachableFrom(data, T)

\* the child references contain a cycle that is reachable from the root, node 0
HasCycle(data) ==
    /\ data.nodes # << >>
    /\ \E n \in ReachableFrom(data, {0}) : n \in ReachableFrom(data, ChildNodes(data, n))

\* C2: for a BSPData whose child references contain a cycle reachable from the
\* root, the validation ends with a data error, and validate_3d_node is never
\* nested deeper than node_count + 3 calls below the call made by validate.
C2_CyclicGraphRejected ==
    (vres.done /\ HasCycle(param.bsp_data))
        => /\ vres.err # None
           /\ vres.max_depth <= Len(param.bsp_data.nodes) + 3

\* a cycle through two nodes, followed until the budget is used up
C2_Witness ==
    /\ vres.done /\ HasCycle(param.bsp_data)
    /\ Len(param.bsp_data.nodes) = 2
    /\ At(param.bsp_data.nodes, 0).front_child = NodeChild(1)
    /\ At(param.bsp_data.nodes, 1).front_child = NodeChild(0)
    /\ vres.err = Some("infinite loop detected when traversing nodes")
    /\ vres.max_depth = Len(param.bsp_data.nodes) + 3

\* C3: on a BSPData accepted by the validation of add_bsp, for every position,
\* find_leaf and find_cluster read only entries of the node, plane, leaf and cluster
\* arrays that exist, the plane of each node included: neither panics on an index
\* out of bounds.
C3_LocationReadsInRange ==
    fl.done => (fl.leaf.outcome # "panic" /\ fl.cluster.outcome # "panic")

\* C4: on a BSPData accepted by the validation, for every position, find_leaf ends
\* after it visited at most node_count nodes and returns a leaf index or None.
C4_FindLeafTerminates ==
    fl.done => /\ fl.leaf.outcome = "return"
               /\ Len(fl.leaf.path) <= Len(param.bsp_data.nodes)
               /\ \/ fl.leaf.value = None
                  \/ Unwrap(fl.leaf.value) \in 0..(Len(param.bsp_data.leaves) - 1)

\* the plane of the node visited at a step of a path
PlaneAt(data, step) == At(data.planes, At(data.nodes, step.node).plane)

\* the side find_leaf has to take at a step: front exactly when
\* dot(position, plane.angle) >= plane.offset
SideAt(data, position, step) ==
    IF Dot(position, PlaneAt(data, step).angle) >= PlaneAt(data, step).offset
    THEN "front" ELSE "back"

\* the child on that side
ChosenChild(data, position, step) ==
    IF SideAt(data, position, step) = "front"
    THEN At(data.nodes, step.node).front_child
    ELSE At(data.nodes, step.node).back_child

C6_PortalReferencesChecked ==
    LET data == param.bsp_data
    IN  (/\ vres.done
         /\ \/ \E c \in 1..Len(data.clusters) : \E i \in 1..Len(data.clusters[c].cluster_portals) :
                   data.clusters[c].cluster_portals[i] >= Len(data.portals)
            \/ \E q \in 1..Len(data.portals) :
                   \/ data.portals[q].front_cluster >= Len(data.clusters)
                   \/ data.portals[q].back_cluster >= Len(data.clusters))
            => vres.err # None

----------------------------------------------------------------------------
(* Renderer::reset, on a renderer that has assets, default bitmaps, a current BSP,
   and whose cameras and swapchain are changed by its callers *)

\* the assets the renderer holds before its first reset
LoadedBitmaps ==
    insert(insert(insert(EmptyMap, "a", Bitmap_load_from_parameters(Bitmap4x2D)),
                  "b", Bitmap_load_from_parameters(Bitmap4x3D)),
           "c", Bitmap_load_from_parameters(Bitmap4xCube))
LoadedShaders ==
    insert(EmptyMap, "a", Shader_load_from_parameters(ShaderEnvironment(Some("a"), None)))
LoadedSkies == insert(EmptyMap, "a", SkyOf(1, 100, 500, None))
LoadedBSPs == insert(EmptyMap, "a", BSP_load_from_parameters(BspTwoClusters))
LoadedDefaults == [default_2d |-> "a", default_3d |-> "b", default_cubemap |-> "c"]

\* the calls made on that renderer
ResetBitmapInputs == {<<"a", Bitmap4x2D>>, <<"b", Bitmap4x3D>>, <<"c", Bitmap4xCube>>}
ResetShaderInputs == {<<"a", ShaderEnvironment(Some("a"), None)>>}
ResetSkyInputs == {<<"a", SkyOf(1, 100, 500, None)>>}
ResetBSPInputs == {<<"a", BspTwoClusters>>}
ResetParameterInputs ==
    {p \in ParameterInputs : p.number_of_viewports = 1 /\ p.resolution.width = 800}

InitReset ==
    /\ bitmaps = LoadedBitmaps /\ shaders = LoadedShaders /\ geometries = EmptyMap
    /\ skies = LoadedSkies /\ bsps = LoadedBSPs
    /\ default_bitmaps = Some(LoadedDefaults)
    /\ current_bsp = Some("a")
    /\ future = Some(Now)
    /\ result = Return("set_current_bsp", "a", "Ok", FALSE)
    /\ frame = NoFrame
    /\ param = BspEmpty
    /\ vres = IdleValidation
    /\ fl = IdleLocation
    /\ host = NoHost
    /\ player_viewports = new_player_viewports(1)
    /\ swapchain = SwapchainOf(1, DefaultResolution)
    /\ commands = << >>
    /\ gpu = IdleQueue(MinImages)

NextReset ==
    \/ \E i \in ResetBitmapInputs : add_bitmap(i[1], i[2], TRUE)
    \/ \E i \in ResetShaderInputs : add_shader(i[1], i[2], TRUE)
    \/ \E i \in ResetSkyInputs : add_sky(i[1], i[2])
    \/ \E i \in ResetBSPInputs : add_bsp(i[1], i[2], TRUE)
    \/ \E path \in Opt({"a"}) : set_current_bsp(path)
    \/ set_default_bitmaps(LoadedDefaults)
    \/ reset
    \/ \E camera \in NewCameraInputs : set_camera_for_viewport(0, camera)
    \/ \E parameters \in ResetParameterInputs : rebuild_swapchain(parameters, "Ok")

SpecReset == InitReset /\ [][NextReset]_vars

\* what a call of reset does
ResetEffect ==
    /\ bitmaps' = EmptyMap /\ shaders' = EmptyMap /\ geometries' = EmptyMap
    /\ skies' = EmptyMap /\ bsps' = EmptyMap
    /\ current_bsp' = None /\ default_bitmaps' = None
    /\ UNCHANGED <<player_viewports, swapchain>>

\* no duplicate test and no set-once test stands in the way of a call
NothingInTheWay ==
    /\ \A i \in ResetBitmapInputs :
          add_bitmap_status(i[1], i[2], TRUE) = AddBitmapParameter_validate(i[2])
    /\ \A i \in ResetShaderInputs :
          add_shader_status(i[1], i[2], TRUE) = AddShaderParameter_validate(i[2], Renderer)
    /\ \A i \in ResetSkyInputs : add_sky_status(i[1], i[2]) = "Ok"
    /\ \A i \in ResetBSPInputs :
          (add_bsp_status(i[1], i[2], TRUE) = "Ok")
              <=> (AddBSPParameter_validate(i[2], Renderer).err = None)
    /\ (Offending(LoadedDefaults) = {}) => set_default_bitmaps_status(LoadedDefaults) = "Ok"

\* C21: reset empties the bitmap, shader, geometry, sky and BSP tables and clears
\* current_bsp and the default bitmaps, and leaves the viewport rectangles, the
\* cameras and the swapchain as they were; after it no duplicate test rejects a
\* path that was loaded before, and set_default_bitmaps is no longer refused
\* because defaults are set.
C21_ResetForgetsAssetsOnly ==
    /\ [][result'.op = "reset" => ResetEffect]_vars
    /\ [](result.op = "reset" => NothingInTheWay)

\* the renderer started with assets and default bitmaps; after a reset every
\* asset was added again under its old path and set_default_bitmaps succeeded a
\* second time, on a renderer whose camera was moved and whose swapchain was rebuilt
C21_Witness ==
    /\ result = Return("set_default_bitmaps", "", "Ok", FALSE)
    /\ DOMAIN bitmaps = {"a", "b", "c"} /\ DOMAIN shaders = {"a"}
    /\ DOMAIN skies = {"a"} /\ DOMAIN bsps = {"a"}
    /\ player_viewports # new_player_viewports(1)
    /\ swapchain.swapchain.id > 1

----------------------------------------------------------------------------
(* add_bsp, over BSPs that differ in their surface lists, vertices, lightmaps,
   shaders and skies *)

\* the largest surface index a subcluster names, and the longest list of the
\* first subcluster
MaxSurfaceIndex == 3
MaxIndexListLen == 3

\* a material with the given vertices and triangles, drawn with shader "a"
MaterialWith(vertices, surfaces) ==
    [shader_vertices |-> vertices, lightmap_vertices |-> None,
     surfaces |-> surfaces, shader |-> "a"]
TriangleVertices == << <<0, 0, 0>>, <<1, 0, 0>>, <<0, 1, 0>> >>

\* two lightmap sets and three materials with two, no and two triangles: four
\* surfaces, numbered 0 to 3
FourSurfaces ==
    << [lightmap_index |-> None,
        materials |-> << MaterialWith(TriangleVertices, << <<0, 1, 2>>, <<2, 1, 0>> >>),
                         MaterialWith(TriangleVertices, << >>) >>],
       [lightmap_index |-> None,
        materials |-> << MaterialWith(TriangleVertices, << <<1, 2, 0>>, <<0, 2, 1>> >>) >>] >>

\* one cluster of two subclusters with the given surface lists
SurfaceBSP(first, second) ==
    [lightmap_bitmap |-> None,
     lightmap_sets |-> FourSurfaces,
     bsp_data |-> [BSPData_default EXCEPT
                      !.clusters = << [BaselineCluster EXCEPT
                                          !.subclusters = << [surface_indices |-> first],
                                                             [surface_indices |-> second] >>] >>]]

SurfaceFamily ==
    {SurfaceBSP(first, second) :
        first \in SeqsUpTo(0..MaxSurfaceIndex, MaxIndexListLen),
        second \in {<< >>, <<3, 1, 3, 2, 1>>, <<2, 0>>}}

\* the positions of the vertices: a point, points 5, 90, 91, 2240, 2241 and 5000
\* away from it, and points with a coordinate that is infinite or not a number
VertexPalette ==
    {<<0, 0, 0>>, <<3, 4, 0>>, <<90, 0, 0>>, <<0, 91, 0>>, <<0, 0, 2240>>, <<2241, 0, 0>>,
     <<3000, 4000, 0>>, <<INFINITY, 0, 0>>, <<NEG_INFINITY, 0, 0>>, <<0, INFINITY, 0>>,
     <<NAN, 0, 0>>, <<0, 0, NAN>>}

\* one lightmap set of two materials without triangles, with no or one vertex each
VertexBSP(first, second) ==
    [lightmap_bitmap |-> None,
     lightmap_sets |-> << [lightmap_index |-> None,
                           materials |-> << MaterialWith(first, << >>),
                                            MaterialWith(second, << >>) >>] >>,
     bsp_data |-> BSPData_default]

VertexFamily ==
    {VertexBSP(first, second) :
        first \in SeqsUpTo(VertexPalette, 1), second \in SeqsUpTo(VertexPalette, 1)}

\* one lightmap set of one material with three shader vertices
LightmapBSP(lightmap_bitmap, lightmap_index, lightmap_vertices) ==
    [lightmap_bitmap |-> lightmap_bitmap,
     lightmap_sets |-> << [lightmap_index |-> lightmap_index,
                           materials |-> << [MaterialOf("a") EXCEPT
                                               !.lightmap_vertices = lightmap_vertices] >>] >>,
     bsp_data |-> BSPData_default]

\* the lightmap bitmap is absent, "a" (loaded, four bitmaps) or "c" (not loaded);
\* the bitmap index is absent, 0, 3 or 4; the lightmap vertices are absent, three
\* or two
LightmapFamily ==
    {LightmapBSP(lightmap_bitmap, lightmap_index, lightmap_vertices) :
        lightmap_bitmap \in Opt({"a", "c"}),
        lightmap_index \in Opt({0, 3, 4}),
        lightmap_vertices \in Opt({<< <<0, 0>>, <<1, 0>>, <<0, 1>> >>, << <<0, 0>>, <<1, 0>> >>})}

\* one material drawn with the shader and one cluster with the sky
ReferenceBSP(shader, sky) ==
    BSPOf(shader, [BSPData_default EXCEPT
                      !.clusters = << [BaselineCluster EXCEPT !.sky = sky] >>])

\* the shader is "a" (loaded), "b" (loaded, of type Model) or "c" (not loaded); the
\* sky is absent, "a" (loaded) or "b" (not loaded)
ReferenceFamily ==
    {ReferenceBSP(shader, sky) : shader \in {"a", "b", "c"}, sky \in Opt({"a", "b"})}

LoadFamily == SurfaceFamily \cup VertexFamily \cup LightmapFamily \cup ReferenceFamily

\* the renderer after add_bitmap("a"), add_shader("a"), add_shader("b") and
\* add_sky("a"), about to be handed one of the BSPs of LoadFamily
InitLoad ==
    /\ bitmaps = insert(EmptyMap, "a", Bitmap_load_from_parameters(Bitmap4x2D))
    /\ shaders = insert(insert(EmptyMap, "a",
                               Shader_load_from_parameters(ShaderEnvironment(Some("a"), None))),
                        "b", Shader_load_from_parameters(BasicShader(Some("a"), "Model")))
    /\ geometries = EmptyMap
    /\ skies = insert(EmptyMap, "a", SkyOf(1, 100, 500, None))
    /\ bsps = EmptyMap
    /\ default_bitmaps = None
    /\ current_bsp = None
    /\ future = Some(Now)
    /\ result = Return("add_sky", "a", "Ok", FALSE)
    /\ frame = NoFrame
    /\ param \in LoadFamily
    /\ vres = IdleValidation
    /\ fl = IdleLocation
    /\ host = NoHost
    /\ player_viewports = new_player_viewports(1)
    /\ swapchain = SwapchainOf(1, DefaultResolution)
    /\ commands = << >>
    /\ gpu = IdleQueue(MinImages)

NextLoad ==
    \E path \in {"a", "b"}, backend_ok \in BOOLEAN : add_bsp(path, param, backend_ok)

SpecLoad == InitLoad /\ [][NextLoad]_vars

\* the BSP the last call stored
Loaded == result.op = "add_bsp" /\ result.status = "Ok"
LoadedBSP == bsps[result.path]

----------------------------------------------------------------------------
(* Properties of the loaded BSP (SpecLoad) *)

Elements(s) == {s[i] : i \in 1..Len(s)}
StrictlyAscending(s) == \A i \in 1..(Len(s) - 1) : s[i] < s[i + 1]

\* C22: after a BSP is loaded, the surface_indices of every subcluster are
\* ascending without duplicates and hold exactly the values given;
\* cluster_surfaces[c] is the ascending duplicate-free union of the lists of
\* cluster c; sorting and deduplicating them again changes nothing.
C22_SurfaceListsNormalized ==
    Loaded =>
        \A c \in 1..Len(param.bsp_data.clusters) :
            LET given == param.bsp_data.clusters[c].subclusters
                kept == LoadedBSP.bsp_data.clusters[c].subclusters
                all == LoadedBSP.cluster_surfaces[c]
            IN  /\ Len(kept) = Len(given)
                /\ \A s \in 1..Len(given) :
                      /\ StrictlyAscending(kept[s].surface_indices)
                      /\ Elements(kept[s].surface_indices) = Elements(given[s].surface_indices)
                      /\ dedup(sort(kept[s].surface_indices)) = kept[s].surface_indices
                /\ StrictlyAscending(all)
                /\ Elements(all) = UNION {Elements(given[s].surface_indices) : s \in 1..Len(given)}
                /\ dedup(sort(all)) = all
                /\ all_surfaces(LoadedBSP.bsp_data.clusters[c]) = all

\* the list 3, 1, 3, 2, 1 has become 1, 2, 3, and with the list 0, 0 of the other
\* subcluster the cluster has the surfaces 0, 1, 2, 3
C22_Witness ==
    /\ Loaded
    /\ Len(param.bsp_data.clusters) = 1
    /\ Len(param.bsp_data.clusters[1].subclusters) = 2
    /\ param.bsp_data.clusters[1].subclusters[1].surface_indices = <<0, 0>>
    /\ param.bsp_data.clusters[1].subclusters[2].surface_indices = <<3, 1, 3, 2, 1>>
    /\ LoadedBSP.bsp_data.clusters[1].subclusters[2].surface_indices = <<1, 2, 3>>
    /\ LoadedBSP.cluster_surfaces[1] = <<0, 1, 2, 3>>

InDrawDistanceLimits(d) == d >= MIN_DRAW_DISTANCE_LIMIT /\ d <= MAX_DRAW_DISTANCE_LIMIT

\* the vertices of the BSP handed to add_bsp and the corners of their bounding box
FiniteVertices ==
    \A i \in 1..Len(vertex_positions(param)) : \A k \in 1..3 :
        vertex_positions(param)[i][k] \notin {INFINITY, NEG_INFINITY, NAN}

\* C23: the draw_distance of every BSP, loaded or default, lies in [100, 2250]: it
\* is the diagonal of the bounding box of the vertices plus 10, clamped; a BSP
\* with no vertices or with a bounding box of one point gets 100, and one whose
\* extent exceeds the ceiling gets 2250.
C23_DrawDistanceInLimits ==
    /\ InDrawDistanceLimits(BSP_default.draw_distance)
    /\ InDrawDistanceLimits(currently_loaded_bsp.draw_distance)
    /\ \A path \in DOMAIN bsps : InDrawDistanceLimits(bsps[path].draw_distance)

\* the same for BSPs whose vertices are all finite, with the values of the
\* floor and the ceiling
C23_FiniteDrawDistanceInLimits ==
    (Loaded /\ FiniteVertices) =>
        LET positions == vertex_positions(param)
            lo == bounding_min(positions, Len(positions))
            hi == bounding_max(positions, Len(positions))
            d == LoadedBSP.draw_distance
        IN  /\ InDrawDistanceLimits(d)
            /\ (positions = << >> \/ lo = hi) => d = MIN_DRAW_DISTANCE_LIMIT
            /\ (\E k \in 1..3 : hi[k] - lo[k] > MAX_DRAW_DISTANCE_LIMIT)
                   => d = MAX_DRAW_DISTANCE_LIMIT

\* a stored BSP whose only vertex has an infinite x
C23_InfiniteVertexLoaded ==
    /\ Loaded
    /\ vertex_positions(param) = << <<INFINITY, 0, 0>> >>
    /\ LoadedBSP.draw_distance = NAN

\* what the lightmap sets and materials of a BSP must not be
LightmapFault(bsp) ==
    \E l \in 1..Len(bsp.lightmap_sets) :
        LET lightmap == bsp.lightmap_sets[l]
        IN  \/ /\ lightmap.lightmap_index # None
               /\ \/ bsp.lightmap_bitmap = None
                  \/ Unwrap(bsp.lightmap_bitmap) \notin DOMAIN bitmaps
                  \/ Unwrap(lightmap.lightmap_index)
                         >= Len(bitmaps[Unwrap(bsp.lightmap_bitmap)].bitmaps)
            \/ \E m \in 1..Len(lightmap.materials) :
                   LET material == lightmap.materials[m]
                   IN  /\ material.lightmap_vertices # None
                       /\ \/ bsp.lightmap_bitmap = None
                          \/ Len(Unwrap(material.lightmap_vertices))
                                 # Len(material.shader_vertices)

\* the lightmap bitmap is named and not loaded
LightmapBitmapMissing(bsp) ==
    bsp.lightmap_bitmap # None /\ Unwrap(bsp.lightmap_bitmap) \notin DOMAIN bitmaps

\* C24: add_bsp fails with a data error if the lightmap_index of a lightmap set is
\* >= the number of bitmaps of the lightmap bitmap, if a lightmap set has a
\* lightmap_index and the BSP has no lightmap bitmap or names one that is not
\* loaded, if a material has lightmap vertices and the BSP has no lightmap bitmap,
\* or if the number of lightmap vertices of a material differs from the number
\* of its shader vertices; a BSP of LightmapFamily with none of these faults and
\* a loaded lightmap bitmap is stored.
C24_LightmapsChecked ==
    [][\A path \in {"a", "b"}, backend_ok \in BOOLEAN :
          add_bsp(path, param, backend_ok) =>
             /\ LightmapFault(param) => (result'.status = "DataError" /\ UNCHANGED bsps)
             /\ (/\ param \in LightmapFamily /\ ~LightmapFault(param)
                 /\ ~LightmapBitmapMissing(param)
                 /\ path \notin DOMAIN bsps /\ backend_ok)
                    => (result'.status = "Ok" /\ path \in DOMAIN bsps')]_vars

\* the first add_bsp of a BSP whose lightmap set names bitmap 4 of the four
\* bitmaps of "a" has returned a data error
C24_Witness ==
    /\ result = Return("add_bsp", "a", "DataError", FALSE)
    /\ bsps = EmptyMap
    /\ param = LightmapBSP(Some("a"), Some(4), Some(<< <<0, 0>>, <<1, 0>>, <<0, 1>> >>))

\* what the materials and clusters of a BSP must not refer to
ReferenceFault(bsp) ==
    \/ \E l \in 1..Len(bsp.lightmap_sets) : \E m \in 1..Len(bsp.lightmap_sets[l].materials) :
           LET shader == bsp.lightmap_sets[l].materials[m].shader
           IN  shader \notin DOMAIN shaders \/ shaders[shader].shader_type = "Model"
    \/ \E c \in 1..Len(bsp.bsp_data.clusters) :
           /\ bsp.bsp_data.clusters[c].sky # None
           /\ Unwrap(bsp.bsp_data.clusters[c].sky) \notin DOMAIN skies

\* C25: add_bsp fails with a data error if a material names a shader that is not
\* in the shader table or whose type is Model, or if a cluster names a sky that
\* is not in the sky table; a BSP of ReferenceFamily whose shader and sky are
\* loaded is stored.
C25_ShadersAndSkiesChecked ==
    [][\A path \in {"a", "b"}, backend_ok \in BOOLEAN :
          add_bsp(path, param, backend_ok) =>
             /\ ReferenceFault(param) => (result'.status = "DataError" /\ UNCHANGED bsps)
             /\ (/\ param \in ReferenceFamily /\ ~ReferenceFault(param)
                 /\ path \notin DOMAIN bsps /\ backend_ok)
                    => (result'.status = "Ok" /\ path \in DOMAIN bsps')]_vars

\* the first add_bsp of a BSP drawn with the Model shader "b" has returned a data
\* error
C25_Witness ==
    /\ result = Return("add_bsp", "a", "DataError", FALSE)
    /\ bsps = EmptyMap
    /\ param = ReferenceBSP("b", Some("a"))

\* the (lightmap set, material) pairs of a BSP, and the number of triangles of
\* the pairs that come before a pair
Pairs(bsp) ==
    UNION {{<<l, m>> : m \in 1..Len(bsp.lightmap_sets[l].materials)} :
              l \in 1..Len(bsp.lightmap_sets)}
TrianglesOf(bsp, q) == bsp.lightmap_sets[q[1]].materials[q[2]].surfaces
RECURSIVE TrianglesBefore(_, _)
TrianglesBefore(bsp, q) ==
    IF q[2] > 1 THEN TrianglesBefore(bsp, <<q[1], q[2] - 1>>)
                        + Len(TrianglesOf(bsp, <<q[1], q[2] - 1>>))
    ELSE IF q[1] > 1
    THEN TrianglesBefore(bsp, <<q[1] - 1, Len(bsp.lightmap_sets[q[1] - 1].materials) + 1>>)
    ELSE 0

\* C26: at the load of a BSP the ranges of the materials are contiguous half-open
\* ranges that start at 0, in (lightmap set, material) order, each as long as the
\* material has triangles; every index of cluster_surfaces[c] lies in the range
\* of exactly one pair and is given to that pair as the triangle
\* surfaces[index - range.start]; a pair that is given no index of cluster c has
\* no index buffer for it, and a pair that is given one has a buffer.
C26_SurfacesAssignedByRange ==
    Loaded =>
        LET ranges == surfaces_ranges(param.lightmap_sets, 0)
            buffers == LoadedBSP.cluster_surface_index_buffers
        IN  /\ \A q \in Pairs(param) :
                  /\ ranges[q[1]][q[2]].start = TrianglesBefore(param, q)
                  /\ ranges[q[1]][q[2]].end
                         = TrianglesBefore(param, q) + Len(TrianglesOf(param, q))
            /\ Len(buffers) = Len(LoadedBSP.cluster_surfaces)
            /\ \A c \in 1..Len(LoadedBSP.cluster_surfaces) :
                  LET all == LoadedBSP.cluster_surfaces[c]
                      Given(q) == {k \in 1..Len(all) :
                                      range_contains(ranges[q[1]][q[2]], all[k])}
                  IN  /\ \A k \in 1..Len(all) :
                            Cardinality({q \in Pairs(param) : k \in Given(q)}) = 1
                      /\ \A q \in Pairs(param) :
                            LET buffer == buffers[c][q[1]][q[2]]
                            IN  /\ (Given(q) = {}) <=> (buffer = None)
                                /\ buffer # None =>
                                      /\ Len(Unwrap(buffer)) = 3 * Cardinality(Given(q))
                                      /\ \A k \in Given(q) :
                                            \E j \in 0..(Cardinality(Given(q)) - 1) :
                                               SubSeq(Unwrap(buffer), 3 * j + 1, 3 * j + 3)
                                                  = At(TrianglesOf(param, q),
                                                       all[k] - TrianglesBefore(param, q))

\* the cluster has the surfaces 0 and 3: the first material is given its triangle
\* 0, the second material, which has no triangles, nothing, and the material of
\* the second lightmap set its triangle 1
C26_Witness ==
    /\ Loaded
    /\ param.lightmap_sets = FourSurfaces
    /\ LoadedBSP.cluster_surfaces = << <<0, 3>> >>
    /\ LoadedBSP.cluster_surface_index_buffers
           = << << << Some(<<0, 1, 2>>), None >>, << Some(<<0, 2, 1>>) >> >> >>

----------------------------------------------------------------------------
(* The state bound at a draw (SpecDraw) *)

\* the position in the stream of the draw_indexed of the j-th batch
DrawPosition(stream, j) ==
    CHOOSE k \in 1..Len(stream) : stream[k].op = "draw_indexed" /\ stream[k].batch = j

\* whose pipeline, and whose descriptor set of the slot, is bound at position k:
\* that of the last command before k that binds one ("" when there is none)
BindsBefore(stream, k, op, slot) ==
    {n \in 1..(k - 1) : stream[n].op = op /\ stream[n].slot = slot}
Bound(stream, k, op, slot) ==
    IF BindsBefore(stream, k, op, slot) = {} THEN ""
    ELSE stream[CHOOSE n \in BindsBefore(stream, k, op, slot) :
                   \A o \in BindsBefore(stream, k, op, slot) : o <= n].of

\* C27: within the draws of one viewport a batch is drawn with repeat_shader only
\* if the batch drawn just before it in the same viewport has the same shader
\* path and no pipeline is bound between the two draws, so that at every draw the
\* pipeline and the shader descriptor set that are bound are those of the shader
\* of the batch; the first batch of a viewport is never drawn with repeat_shader.
C27_RepeatShaderOnlyAfterSameShader ==
    RecordedFrame =>
        \A v \in 1..Len(commands) :
            LET draws == commands[v].draws
                stream == commands[v].stream
            IN  \A j \in 1..Len(draws) :
                    /\ draws[j].repeat_shader =>
                          /\ j > 1
                          /\ draws[j - 1].shader = draws[j].shader
                          /\ \A k \in DrawPosition(stream, j - 1)..DrawPosition(stream, j) :
                                stream[k].op # "bind_pipeline_graphics"
                    /\ Bound(stream, DrawPosition(stream, j), "bind_pipeline_graphics", 0)
                          = draws[j].shader
                    /\ Bound(stream, DrawPosition(stream, j), "bind_descriptor_sets", 3)
                          = draws[j].shader

\* two viewports draw the BSP whose batches all use the shader "b": in each the
\* first batch binds the pipeline and the second is drawn as a repeat
C27_Witness ==
    /\ RecordedFrame
    /\ current_bsp = Some("b")
    /\ Len(commands) >= 2
    /\ \A v \in 1..Len(commands) :
          /\ Len(commands[v].draws) = 2
          /\ ~commands[v].draws[1].repeat_shader
          /\ commands[v].draws[2].repeat_shader

----------------------------------------------------------------------------
(* Every call of the renderer, in any order *)

CallBitmapInputs == {<<"a", Bitmap4x2D>>, <<"b", Bitmap4x3D>>, <<"c", Bitmap4xCube>>}
CallShaderInputs ==
    {<<"a", ShaderEnvironment(Some("a"), None)>>, <<"b", BasicShader(Some("a"), "Model")>>}
CallSkyInputs == {<<"a", SkyOf(1, 100, 500, None)>>, <<"a", SkyOf(0, 0, 0, None)>>}
CallBSPInputs ==
    {<<"a", BspTwoClusters>>, <<"b", DrawBSPOneShader>>, <<"b", ReferenceBSP("a", Some("b"))>>,
     <<"b", ReferenceBSP("a", None)>>}
CallCameraInputs == {c \in NewCameraInputs : c.position = <<-1, 0, 0>>}

NextCalls ==
    \/ \E i \in CallBitmapInputs : add_bitmap(i[1], i[2], TRUE)
    \/ \E i \in CallShaderInputs : add_shader(i[1], i[2], TRUE)
    \/ \E i \in CallSkyInputs : add_sky(i[1], i[2])
    \/ \E i \in CallBSPInputs, ok \in BOOLEAN : add_bsp(i[1], i[2], ok)
    \/ \E path \in Opt({"a", "b"}) : set_current_bsp(path)
    \/ set_default_bitmaps(LoadedDefaults)
    \/ reset
    \/ \E camera \in CallCameraInputs : set_camera_for_viewport(0, camera)
    \/ \E parameters \in ResetParameterInputs : rebuild_swapchain(parameters, "Ok")
    \/ \E acquire \in {"Ok", "OutOfDate"} : draw_frame_recording(acquire, "Ok")

SpecCalls == Init /\ [][NextCalls]_vars

\* the lookup of vulkan.rs:313 fails for a batch of the BSP
ShaderLookupFails(bsp) ==
    /\ player_viewports # << >>
    /\ \E g \in 1..Len(bsp.geometries) : bsp.geometries[g].shader \notin DOMAIN shaders

\* C28: in every state reached by calls of add_*, set_current_bsp,
\* set_default_bitmaps, reset, set_camera_for_viewport, rebuild_swapchain and
\* draw_frame, current_bsp is None or a key of the BSP table, every shader path
\* of a geometry of a loaded BSP is a key of the shader table and every sky of a
\* cluster of a loaded BSP is a key of the sky table, so that the shader lookup
\* of draw_frame does not fail.
C28_ReferencesStayLoaded ==
    /\ current_bsp # None => Unwrap(current_bsp) \in DOMAIN bsps
    /\ \A path \in DOMAIN bsps :
          /\ \A g \in 1..Len(bsps[path].geometries) :
                bsps[path].geometries[g].shader \in DOMAIN shaders
          /\ \A c \in 1..Len(bsps[path].bsp_data.clusters) :
                bsps[path].bsp_data.clusters[c].sky # None
                    => Unwrap(bsps[path].bsp_data.clusters[c].sky) \in DOMAIN skies
    /\ ~ShaderLookupFails(currently_loaded_bsp)

\* a frame of the current BSP "a" is recorded on a renderer that holds a second BSP,
\* default bitmaps, a moved camera and a rebuilt swapchain
C28_Witness ==
    /\ RecordedFrame
    /\ current_bsp = Some("a")
    /\ DOMAIN bsps = {"a", "b"}
    /\ default_bitmaps # None
    /\ Len(commands) >= 1
    /\ Len(commands[1].draws) = 1
    /\ player_viewports # new_player_viewports(1)
    /\ swapchain.swapchain.id > 1

----------------------------------------------------------------------------
(* The validation of the nodes, on every graph of up to MaxGraphNodes nodes *)

MaxGraphNodes == 3

\* the children of a node of a graph: none, the leaf 0, or a node; the node
\* MaxGraphNodes is in no array
GraphChildRefs == {NoChild, LeafChild(0)} \cup {NodeChild(n) : n \in 0..MaxGraphNodes}
GraphFamily ==
    {[BSPData_default EXCEPT !.nodes = n, !.leaves = << [cluster |-> 0] >>,
                             !.clusters = << BaselineCluster >>] :
        n \in SeqsUpTo([front_child : GraphChildRefs, back_child : GraphChildRefs, plane : {0}],
                       MaxGraphNodes)}

\* the renderer of InitBSP, about to be handed a BSP of GraphFamily
InitGraph ==
    /\ bitmaps = insert(EmptyMap, "a", Bitmap_load_from_parameters(Bitmap4x2D))
    /\ shaders = insert(EmptyMap, "a",
                        Shader_load_from_parameters(BasicShader(Some("a"), "TransparentGeneric")))
    /\ geometries = EmptyMap
    /\ skies = insert(EmptyMap, "a", SkyOf(1, 100, 500, None))
    /\ bsps = EmptyMap
    /\ default_bitmaps = None
    /\ current_bsp = None
    /\ future = Some(Now)
    /\ result = Return("add_sky", "a", "Ok", FALSE)
    /\ frame = NoFrame
    /\ param \in {BSPOf("a", data) : data \in GraphFamily}
    /\ vres = IdleValidation
    /\ fl = IdleLocation
    /\ host = NoHost
    /\ player_viewports = new_player_viewports(1)
    /\ swapchain = SwapchainOf(1, DefaultResolution)
    /\ commands = << >>
    /\ gpu = IdleQueue(MinImages)

\* AddBSPParameter::validate is called on the BSP
SpecGraph == InitGraph /\ [][Validate]_vars

\* every child reference names a node or a leaf of the arrays
ChildrenInBounds(data) ==
    \A n \in 1..Len(data.nodes) :
        \A r \in {data.nodes[n].front_child, data.nodes[n].back_child} :
            /\ r.kind = "Node" => r.index < Len(data.nodes)
            /\ r.kind = "Leaf" => r.index < Len(data.leaves)

\* a node is its own descendant
AnyCycle(data) ==
    \E n \in 0..(Len(data.nodes) - 1) : n \in ReachableFrom(data, ChildNodes(data, n))

\* the parents of a node
Parents(data, n) == {q \in 0..(Len(data.nodes) - 1) : n \in ChildNodes(data, q)}

\* C29: the validation of the nodes accepts every node array that is not empty,
\* whose child references are all in bounds and whose graph has no cycle, also
\* when a node is the child of several parents and when a chain is as deep as
\* there are nodes: on a graph without a cycle the budget of node_count + 3 is
\* never used up, and the cycle error is raised only when there is a cycle.
C29_AcyclicGraphsAccepted ==
    LET data == param.bsp_data
    IN  vres.done =>
           /\ (data.nodes # << >> /\ ChildrenInBounds(data) /\ ~AnyCycle(data))
                  => /\ vres.err = None
                     /\ vres.max_depth < Len(data.nodes)
                     /\ RemainingTests(data) - vres.max_depth > 0
           /\ vres.err = Some("infinite loop detected when traversing nodes")
                  => AnyCycle(data)

\* three nodes in a chain as deep as the array, the last of them the child of
\* both others, are accepted
C29_Witness ==
    LET data == param.bsp_data
    IN  /\ vres.done /\ vres.err = None
        /\ Len(data.nodes) = 3
        /\ ChildNodes(data, 0) = {1, 2} /\ ChildNodes(data, 1) = {2}
        /\ Parents(data, 2) = {0, 1}
        /\ vres.max_depth = 2

----------------------------------------------------------------------------
(* The host application: the input thread and the render thread
   (flycam-test/src/main.rs) *)

\* the keys the user presses before leaving
MaxKeys == 2

\* the keys whose handlers call lock_renderer (main.rs:330, 338, 346) and the
\* key that leaves the loop of main (main.rs:299)
LockingKeycodes == {"PageUp", "Q", "F"}
Keycodes == LockingKeycodes \cup {"Escape"}

\* the structure BSPs of the scenario, which initialize_and_start has loaded
ScenarioBSPs == {"a", "b"}

\* where the velocity takes the camera in one turn of the render loop
HostPositions == {<<-1, 0, 0>>, <<0, 0, 0>>}

\* the renderer, which the steps of the threads outside their calls leave alone
renderer_state ==
    <<bitmaps, shaders, geometries, skies, bsps, default_bitmaps, current_bsp, future,
      result, frame, param, vres, fl, player_viewports, swapchain, commands, gpu>>

\* main has built the renderer, initialize_and_start has loaded the scenario and
\* has spawned the render thread (main.rs:241-246, 615)
InitHost ==
    /\ bitmaps = DrawBitmaps /\ shaders = DrawShaders /\ geometries = EmptyMap
    /\ skies = DrawSkies /\ bsps = DrawBSPs
    /\ default_bitmaps = None
    /\ current_bsp = Some("a")
    /\ future = Some(Now)
    /\ result = Return("set_current_bsp", "a", "Ok", FALSE)
    /\ frame = NoFrame
    /\ param = BspEmpty
    /\ vres = IdleValidation
    /\ fl = IdleLocation
    /\ player_viewports = new_player_viewports(1)
    /\ swapchain = SwapchainOf(1, DefaultResolution)
    /\ commands = << >>
    /\ gpu = IdleQueue(MinImages)
    /\ host = [NoHost EXCEPT !.input = "wait_event", !.render = "upgrade"]

\* Mutex::lock returns once the Mutex is free; unwrap panics when it is poisoned
mutex_lock(h, thread, next) ==
    IF h.poisoned THEN [h EXCEPT ![thread] = "panicked"]
    ELSE [h EXCEPT !.mutex = thread, ![thread] = next]

\* the loop of main (main.rs:279-445) takes an event: a key whose handler locks
\* the renderer, or the key that ends the loop and with it the process; the
\* handler of the key calls the renderer through its PriorityLock (main.rs:330,
\* 339-341, 347-349)
main ==
    \/ /\ host.input = "wait_event"
       /\ \E keycode \in Keycodes :
             IF keycode = "Escape"
             THEN host' = [host EXCEPT !.input = "exited"]
             ELSE /\ host.keys < MaxKeys
                  /\ host' = [host EXCEPT !.input = "swap", !.keycode = keycode,
                                           !.keys = @ + 1]
       /\ UNCHANGED renderer_state
    \/ /\ host.input = "call"
       /\ host.keycode = "PageUp"
       /\ \E path \in ScenarioBSPs : set_current_bsp(Some(path))
    \/ /\ host.input = "call"
       /\ host.keycode = "Q"
       /\ set_camera_for_viewport(0, [player_viewports[1].camera EXCEPT !.lightmaps = ~@])
    \/ /\ host.input = "call"
       /\ host.keycode = "F"
       /\ set_camera_for_viewport(0, [player_viewports[1].camera EXCEPT !.fog = ~@])

\* FlycamTestHandler::lock_renderer (main.rs:549-560): a turn of its loop, whose
\* swap stores true and which ends when the swap returns true, and the lock of
\* the Mutex
lock_renderer ==
    \/ /\ host.input = "swap"
       /\ LET old == host.pause_rendering_flag
          IN  host' = [host EXCEPT !.pause_rendering_flag = TRUE,
                                   !.input = IF old THEN "lock" ELSE "swap",
                                   !.further_draws = IF old THEN @ ELSE 0]
       /\ UNCHANGED renderer_state
    \/ /\ host.input = "lock"
       /\ host.mutex = "free"
       /\ host' = mutex_lock(host, "input", "call")
       /\ UNCHANGED renderer_state

\* a PriorityLock is dropped: impl Drop for PriorityLock (main.rs:1130-1134)
\* runs, then its MutexGuard (main.rs:1126) is dropped
PriorityLock_drop ==
    \/ /\ host.input = "drop"
       /\ host' = [host EXCEPT !.pause_rendering_flag = FALSE, !.input = "release"]
       /\ UNCHANGED renderer_state
    \/ /\ host.input = "release"
       /\ host' = [host EXCEPT !.mutex = "free", !.input = "wait_event"]
       /\ UNCHANGED renderer_state

\* a render thread that does not look at the flag
pause_rendering_load_ignored(h) == FALSE

\* pause_rendering.load (main.rs:1057)
pause_rendering_load(h) == h.pause_rendering_flag

\* run_renderer_thread (main.rs:1051-1123): the head of the loop, where the Weak
\* does not upgrade once main has dropped the handler; the load of the flag,
\* which sends the thread back to the head while the flag is set; the lock of
\* the Mutex; the camera of the viewport; draw_frame; drop(renderer)
run_renderer_thread ==
    \/ /\ host.render = "upgrade"
       /\ host' = [host EXCEPT !.render = IF host.input \in {"exited", "panicked"}
                                          THEN "exited" ELSE "load"]
       /\ UNCHANGED renderer_state
    \/ /\ host.render = "load"
       /\ host' = [host EXCEPT !.render = IF pause_rendering_load(host)
                                          THEN "upgrade" ELSE "lock"]
       /\ UNCHANGED renderer_state
    \/ /\ host.render = "lock"
       /\ host.mutex = "free"
       /\ host' = mutex_lock(host, "render", "set_camera_for_viewport")
       /\ UNCHANGED renderer_state
    \/ /\ host.render = "set_camera_for_viewport"
       /\ \E position \in HostPositions :
             set_camera_for_viewport(0, [player_viewports[1].camera
                                            EXCEPT !.position = position])
    \/ /\ host.render = "draw_frame"
       /\ \E acquire \in AcquireOutcomes, submit \in SubmitOutcomes :
             draw_frame_recording(acquire, submit)
    \/ /\ host.render = "drop"
       /\ host' = [host EXCEPT !.mutex = "free", !.render = "upgrade"]
       /\ UNCHANGED renderer_state

NextHost ==
    \/ main
    \/ lock_renderer
    \/ PriorityLock_drop
    \/ run_renderer_thread

SpecHost == InitHost /\ [][NextHost]_vars

\* the scheduler lets both threads run; the user need not press a key
SpecHostFair ==
    /\ SpecHost
    /\ WF_vars(host.input # "wait_event" /\ (main \/ lock_renderer \/ PriorityLock_drop))
    /\ WF_vars(run_renderer_thread)

\* the thread holds the MutexGuard of the renderer
InputHoldsRenderer == host.input \in {"call", "drop", "release"}
RenderHoldsRenderer == host.render \in {"set_camera_for_viewport", "draw_frame", "drop"}

\* a thread has ended: main has left its loop, or a thread has panicked
HostEnded ==
    \/ host.input \in {"exited", "panicked"}
    \/ host.render \in {"exited", "panicked"}

\* C30: in the host application the calls of the renderer from the input thread
\* and from the render thread never overlap, as both hold the Mutex of the
\* renderer; once lock_renderer has set the pause flag the render thread begins
\* at most one further draw_frame before the input thread obtains the renderer;
\* the flag is set while the input thread holds its PriorityLock and is cleared
\* when the PriorityLock is dropped, after which the render thread draws again.
C30_PriorityLock ==
    /\ [](~(InputHoldsRenderer /\ RenderHoldsRenderer))
    /\ [](InputHoldsRenderer => host.mutex = "input")
    /\ [](RenderHoldsRenderer => host.mutex = "render")
    /\ [](host.further_draws <= 1)
    /\ [](host.input \in {"lock", "call", "drop"} => host.pause_rendering_flag)
    /\ [](host.input = "release" => ~host.pause_rendering_flag)
    /\ (host.input = "release") ~> (host.render = "drop" \/ HostEnded)

\* the render thread has drawn one further frame after the flag was set, and the
\* input thread has obtained the renderer
C30_Witness ==
    /\ host.input = "call"
    /\ host.further_draws = 1
    /\ host.pause_rendering_flag
    /\ host.render \in {"upgrade", "load"}
    /\ result.op = "draw_frame"

====
